---- MODULE Spec2Model ----
(***************************************************************************)
(* AgentTest: the evaluation-and-scoring pipeline (evaluators, runner) and *)
(* the git-indexed result store.                                           *)
(*                                                                         *)
(* Python values are records tagged by the field t.  Numbers are exact     *)
(* rationals n/d in lowest terms (the floats of the source, without their  *)
(* rounding).  Strings are sequences of one-character strings.  A raised   *)
(* exception is the value Raise(exc), handed up by every operator that     *)
(* models a function until an operator that models a try/except catches it.*)
(***************************************************************************)
EXTENDS Integers, Sequences, FiniteSets, TLC

VARIABLES
    ev_self,      \* evaluator instance under evaluation: configuration and library environment
    ev_input,     \* test output handed to evaluate()
    ev_out,       \* what StringSimilarityEvaluator.evaluate / RegexEvaluator.evaluate produced
    ev_pc,        \* "ready" before the call, "done" after it
    x_self,       \* TestRunner instance given to execute_test: registry and configuration
    x_case,       \* TestCase given to execute_test
    x_verbose,    \* the verbose argument of execute_test
    x_out,        \* execute_test's run: the TestResult returned, the evaluations built, the calls made
    x_pc,         \* "ready" before the call, "done" after it
    run_self,     \* TestRunner instance whose run_tests is running
    run_args,     \* arguments of run_tests, and what discover_tests does for them
    run_cases,    \* run_tests: the test cases left after the tag filter
    run_i,        \* run_tests: position of the for loop in test_cases
    run_results,  \* run_tests: the TestResults being filled
    run_pc,       \* "start", "loop", "returned", or "raised" when an exception left run_tests
    st_repo,      \* GitLogger.repo: the repository found at construction, None when there is none
    st_now,       \* the clock, in half seconds: the timestamp of the last run logged
    st_files,     \* the record files of results_dir: name, content, modification time, place
    st_index,     \* the content of index.json, None while the file does not exist
    st_logged,    \* number of log_results calls made
    st_call,      \* the last call made on the GitLogger, with what it returned or raised
    cmp_base,     \* compare_results: the record loaded for base
    cmp_target,   \* compare_results: the record loaded for target
    cmp_out,      \* compare_results: the comparison returned
    cmp_pc        \* "ready" before the comparison, "done" after it

ev_vars == <<ev_self, ev_input, ev_out, ev_pc>>
x_vars == <<x_self, x_case, x_verbose, x_out, x_pc>>
run_vars == <<run_self, run_args, run_cases, run_i, run_results, run_pc>>
st_vars == <<st_repo, st_now, st_files, st_index, st_logged, st_call>>
cmp_vars == <<cmp_base, cmp_target, cmp_out, cmp_pc>>
vars == <<ev_vars, x_vars, run_vars, st_vars, cmp_vars>>

(***************************************************************************)
(* Bounds                                                                  *)
(***************************************************************************)
MaxLen == 2          \* longest string of a test output
MaxCases == 2        \* longest list of cases of a multi-case output

(***************************************************************************)
(* Python values                                                           *)
(***************************************************************************)
None == [t |-> "none", s |-> <<>>, n |-> 0, d |-> 1]
Str(s) == [t |-> "str", s |-> s, n |-> 0, d |-> 1]
Raise(exc) == [t |-> "raise", exc |-> exc]
IsRaise(v) == v.t = "raise"

RECURSIVE GCD(_, _)
GCD(a, b) == IF b = 0 THEN a ELSE GCD(b, a % b)

\* the rational n/d (d > 0) in lowest terms
Num(n, d) ==
    [t |-> "num", s |-> <<>>,
     n |-> n \div GCD(IF n < 0 THEN -n ELSE n, d),
     d |-> d \div GCD(IF n < 0 THEN -n ELSE n, d)]

IsNum(v) == v.t = "num"
RAdd(a, b) == Num(a.n * b.d + b.n * a.d, a.d * b.d)
RSub(a, b) == Num(a.n * b.d - b.n * a.d, a.d * b.d)
RMul(a, b) == Num(a.n * b.n, a.d * b.d)
RLess(a, b) == a.n * b.d < b.n * a.d
\* a / b: ZeroDivisionError when b = 0
RDiv(a, b) ==
    IF b.n = 0 THEN Raise("ZeroDivisionError")
    ELSE IF b.n < 0 THEN Num(-(a.n * b.d), a.d * (-b.n))
    ELSE Num(a.n * b.d, a.d * b.n)

Zero == Num(0, 1)
One == Num(1, 1)
DefaultThreshold == Num(4, 5)     \* the literal 0.8

(***************************************************************************)
(* Strings                                                                 *)
(***************************************************************************)
\* the sequences over S of length at most k
SeqsUpTo(S, k) == UNION {[1..n -> S] : n \in 0..k}

RECURSIVE Decimal(_)
Decimal(n) ==
    IF n < 10 THEN <<(<<"0", "1", "2", "3", "4", "5", "6", "7", "8", "9">>)[n + 1]>>
    ELSE Decimal(n \div 10) \o Decimal(n % 10)

\* str(v) for the values a test output holds: a string is itself, an int is
\* written in decimal, None is "None"
PyStr(v) ==
    CASE v.t = "str" -> v.s
      [] v.t = "num" -> IF v.n < 0 THEN <<"-">> \o Decimal(-v.n) ELSE Decimal(v.n)
      [] OTHER -> <<"N", "o", "n", "e">>

\* s.lower(), over the letters the outputs are written in
Lower(s) == [i \in 1..Len(s) |-> IF s[i] = "A" THEN "a" ELSE s[i]]

\* s.split(): the maximal runs of non-whitespace characters, in order, as
\* Split(s, 1, <<>>); cur is the run being read at place i.  The space is the
\* one whitespace character the outputs are written in.
RECURSIVE Split(_, _, _)
Split(s, i, cur) ==
    IF i > Len(s) THEN (IF cur = <<>> THEN <<>> ELSE <<cur>>)
    ELSE IF s[i] = " "
         THEN (IF cur = <<>> THEN <<>> ELSE <<cur>>) \o Split(s, i + 1, <<>>)
         ELSE Split(s, i + 1, Append(cur, s[i]))

SetOf(q) == {q[i] : i \in 1..Len(q)}
Min2(a, b) == IF a < b THEN a ELSE b
Max2(a, b) == IF a > b THEN a ELSE b

(***************************************************************************)
(* EvaluationResult (evaluators/base.py)                                   *)
(***************************************************************************)
NoError == <<>>                       \* error=None
Msg(prefix, arg) == <<prefix, arg>>   \* the f-string prefix + arg
NoDetails == [k |-> "empty"]          \* details=None, made {} by __post_init__

EvaluationResult(passed, score, threshold, details, error) ==
    [t |-> "EvaluationResult", passed |-> passed, score |-> score,
     threshold |-> threshold, details |-> details, error |-> error]

to_dict(r) ==
    [t |-> "dict", keys |-> {"passed", "score", "threshold", "details", "error"},
     passed |-> r.passed, score |-> r.score, threshold |-> r.threshold,
     details |-> r.details, error |-> r.error]

(***************************************************************************)
(* BaseEvaluator                                                           *)
(***************************************************************************)
Absent == [t |-> "absent", s |-> <<>>, n |-> 0, d |-> 1]    \* a key the configuration does not hold

\* a mapping of a test output; a key it does not hold reads as None through get()
Mapping(actual, expected, pattern) ==
    [t |-> "dict", actual |-> actual, expected |-> expected, pattern |-> pattern,
     has_cases |-> FALSE, test_cases |-> None]

WithCases(m, cases) == [m EXCEPT !.has_cases = TRUE, !.test_cases = cases]
List(items) == [t |-> "list", items |-> items]

_extract_test_data(test_output) ==
    IF test_output.t = "dict" THEN test_output
    ELSE IF test_output.t = "list" THEN WithCases(Mapping(None, None, None), test_output)
    ELSE Mapping(test_output, None, None)

_get_config_value(self, key, default) ==
    IF self.config[key] = Absent THEN default ELSE self.config[key]

(***************************************************************************)
(* StringSimilarityEvaluator: the similarity methods                       *)
(***************************************************************************)
RECURSIVE LevInner(_, _, _, _, _)
LevInner(c1, s2, previous_row, current_row, j) ==
    IF j > Len(s2) THEN current_row
    ELSE LET insertions == previous_row[j + 1] + 1
             deletions == current_row[j] + 1
             substitutions == previous_row[j] + (IF c1 # s2[j] THEN 1 ELSE 0)
         IN LevInner(c1, s2, previous_row,
                     Append(current_row, Min2(Min2(insertions, deletions), substitutions)),
                     j + 1)

RECURSIVE LevOuter(_, _, _, _)
LevOuter(s1, s2, previous_row, i) ==
    IF i > Len(s1) THEN previous_row[Len(previous_row)]
    ELSE LevOuter(s1, s2, LevInner(s1[i], s2, previous_row, <<i>>, 1), i + 1)

levenshtein_distance(s1, s2) ==
    LET a == IF Len(s1) < Len(s2) THEN s2 ELSE s1
        b == IF Len(s1) < Len(s2) THEN s1 ELSE s2
    IN IF Len(b) = 0 THEN Len(a)
       ELSE LevOuter(a, b, [k \in 1..(Len(b) + 1) |-> k - 1], 1)

\* _levenshtein_similarity that divides by the sum of the lengths
_levenshtein_similarity_BySum(text1, text2) ==
    IF Max2(Len(text1), Len(text2)) = 0 THEN One
    ELSE RSub(One, Num(levenshtein_distance(text1, text2), Len(text1) + Len(text2)))

_levenshtein_similarity(text1, text2) ==
    IF Max2(Len(text1), Len(text2)) = 0 THEN One
    ELSE RSub(One, Num(levenshtein_distance(text1, text2), Max2(Len(text1), Len(text2))))

\* set(text.lower().split())
WordSet(text) == SetOf(Split(Lower(text), 1, <<>>))

_jaccard_similarity(text1, text2) ==
    LET set1 == WordSet(text1)
        set2 == WordSet(text2)
    IN IF Cardinality(set1 \cup set2) > 0
       THEN Num(Cardinality(set1 \cap set2), Cardinality(set1 \cup set2))
       ELSE Zero

_word_overlap_similarity(text1, text2) ==
    LET words1 == WordSet(text1)
        words2 == WordSet(text2)
    IN IF words1 = {} /\ words2 = {} THEN One
       ELSE IF words1 = {} \/ words2 = {} THEN Zero
       ELSE Num(Cardinality(words1 \cap words2),
                Max2(Cardinality(words1), Cardinality(words2)))

\* self.sklearn is what the TF-IDF library does in this environment: None when
\* it is not installed (ImportError), otherwise the value it computes or the
\* exception it raises
_cosine_similarity(self, text1, text2) ==
    IF self.sklearn = None THEN _word_overlap_similarity(text1, text2)
    ELSE self.sklearn

_calculate_similarity(self, actual, expected) ==
    IF _get_config_value(self, "method", Str(<<"cosine">>)) = Str(<<"exact">>)
    THEN (IF actual = expected THEN One ELSE Zero)
    ELSE IF _get_config_value(self, "method", Str(<<"cosine">>)) = Str(<<"levenshtein">>)
    THEN _levenshtein_similarity(actual, expected)
    ELSE IF _get_config_value(self, "method", Str(<<"cosine">>)) = Str(<<"jaccard">>)
    THEN _jaccard_similarity(actual, expected)
    ELSE _cosine_similarity(self, actual, expected)

(***************************************************************************)
(* StringSimilarityEvaluator                                               *)
(***************************************************************************)
\* _evaluate_single_case that passes only a similarity above the threshold
SingleCaseResult_Above(self, data, similarity, threshold) ==
    IF IsRaise(similarity) THEN similarity
    ELSE IF ~IsNum(threshold) THEN Raise("TypeError")
    ELSE EvaluationResult(RLess(threshold, similarity), similarity, threshold,
             [actual |-> data.actual, expected |-> data.expected,
              similarity |-> similarity,
              method |-> _get_config_value(self, "method", Str(<<"cosine">>))],
             NoError)

\* the end of _evaluate_single_case, from the similarity and the threshold
SingleCaseResult(self, data, similarity, threshold) ==
    IF IsRaise(similarity) THEN similarity
    ELSE IF ~IsNum(threshold) THEN Raise("TypeError")      \* similarity >= threshold
    ELSE EvaluationResult(~RLess(similarity, threshold), similarity, threshold,
             [actual |-> data.actual, expected |-> data.expected,
              similarity |-> similarity,
              method |-> _get_config_value(self, "method", Str(<<"cosine">>))],
             NoError)

\* _evaluate_single_case that looks at expected before actual
_evaluate_single_case_ExpectedFirst(self, data) ==
    IF data.t # "dict" THEN Raise("AttributeError")
    ELSE IF data.expected = None
    THEN EvaluationResult(TRUE, One, None, [reason |-> "No expected value provided"], NoError)
    ELSE IF data.actual = None
    THEN EvaluationResult(FALSE, None, None, NoDetails,
                          Msg("No 'actual' value found in test output", ""))
    ELSE SingleCaseResult(self, data,
             _calculate_similarity(self, PyStr(data.actual), PyStr(data.expected)),
             _get_config_value(self, "threshold", DefaultThreshold))

_evaluate_single_case(self, data) ==
    IF data.t # "dict" THEN Raise("AttributeError")      \* data.get on a non-mapping
    ELSE IF data.actual = None
    THEN EvaluationResult(FALSE, None, None, NoDetails,
                          Msg("No 'actual' value found in test output", ""))
    ELSE IF data.expected = None
    THEN EvaluationResult(TRUE, One, None, [reason |-> "No expected value provided"], NoError)
    ELSE SingleCaseResult(self, data,
             _calculate_similarity(self, PyStr(data.actual), PyStr(data.expected)),
             _get_config_value(self, "threshold", DefaultThreshold))

\* one turn of the loop of _evaluate_multiple_cases, from its state (results,
\* total_score, passed_count) and the result of the case
LoopTurn(loop, result) ==
    IF IsRaise(result) THEN result
    ELSE [t |-> "loop",
          results |-> Append(loop.results, result),
          total_score |-> IF result.score # None THEN RAdd(loop.total_score, result.score)
                                                 ELSE loop.total_score,
          passed_count |-> IF result.passed THEN loop.passed_count + 1
                                            ELSE loop.passed_count]

\* turn i of the loop after the turns before it: an exception of an earlier
\* turn has ended the loop
MultiNext(self, test_cases, i, before) ==
    IF IsRaise(before) THEN before
    ELSE LoopTurn(before, _evaluate_single_case(self, test_cases[i]))

\* the loop of _evaluate_multiple_cases over the first i cases
RECURSIVE MultiLoop(_, _, _)
MultiLoop(self, test_cases, i) ==
    IF i = 0 THEN [t |-> "loop", results |-> <<>>, total_score |-> Zero, passed_count |-> 0]
    ELSE MultiNext(self, test_cases, i, MultiLoop(self, test_cases, i - 1))

\* _evaluate_multiple_cases that divides by the number of cases with a score
MultiResult_ScoredOnly(cases, loop, threshold) ==
    IF IsRaise(loop) THEN loop
    ELSE EvaluationResult(loop.passed_count = Len(cases),
             IF Len(SelectSeq(loop.results, LAMBDA r : r.score # None)) > 0
             THEN RDiv(loop.total_score,
                       Num(Len(SelectSeq(loop.results, LAMBDA r : r.score # None)), 1))
             ELSE Zero,
             threshold,
             [total_cases |-> Len(cases), passed_cases |-> loop.passed_count,
              individual_results |->
                  [k \in 1..Len(loop.results) |-> to_dict(loop.results[k])]],
             NoError)

\* the end of _evaluate_multiple_cases, from the state the loop ends in
MultiResult(cases, loop, threshold) ==
    IF IsRaise(loop) THEN loop
    ELSE EvaluationResult(loop.passed_count = Len(cases),
             IF Len(cases) > 0 THEN RDiv(loop.total_score, Num(Len(cases), 1)) ELSE Zero,
             threshold,
             [total_cases |-> Len(cases), passed_cases |-> loop.passed_count,
              individual_results |->
                  [k \in 1..Len(loop.results) |-> to_dict(loop.results[k])]],
             NoError)

_evaluate_multiple_cases(self, test_cases) ==
    IF test_cases.t # "list" THEN Raise("TypeError")       \* enumerate of a non-iterable
    ELSE MultiResult(test_cases.items,
                     MultiLoop(self, test_cases.items, Len(test_cases.items)),
                     _get_config_value(self, "threshold", DefaultThreshold))

\* the body of the try block of StringSimilarityEvaluator.evaluate
StringSimilarityBody(self, test_output) ==
    IF _extract_test_data(test_output).has_cases
    THEN _evaluate_multiple_cases(self, _extract_test_data(test_output).test_cases)
    ELSE _evaluate_single_case(self, _extract_test_data(test_output))

\* an except clause: the exception r made into a failed EvaluationResult
Caught(r, prefix) ==
    IF IsRaise(r) THEN EvaluationResult(FALSE, None, None, NoDetails, Msg(prefix, r.exc))
    ELSE r

\* evaluate without its except clause
StringSimilarityEvaluate_NoExcept(self, test_output) == StringSimilarityBody(self, test_output)

StringSimilarityEvaluate(self, test_output) ==
    Caught(StringSimilarityBody(self, test_output), "String similarity evaluation failed: ")

(***************************************************************************)
(* RegexEvaluator                                                          *)
(***************************************************************************)
\* bool(v) of Python
Truthy(v) ==
    CASE v.t = "none" -> FALSE
      [] v.t = "str" -> v.s # <<>>
      [] v.t = "num" -> v.n # 0
      [] OTHER -> TRUE

\* The patterns of the model: every character stands for itself, except "."
\* (any character) and "(" (an unbalanced parenthesis: re.error).
MatchAt(pattern, text, i) ==
    /\ i + Len(pattern) - 1 <= Len(text)
    /\ \A k \in 1..Len(pattern) : pattern[k] = "." \/ pattern[k] = text[i + k - 1]

Least(S) == CHOOSE x \in S : \A y \in S : x <= y

\* re.search(pattern, text): the leftmost match as Str(text matched), None
\* when there is none
re_search(pattern, text) ==
    IF pattern.t # "str" THEN Raise("TypeError")
    ELSE IF \E k \in 1..Len(pattern.s) : pattern.s[k] = "(" THEN Raise("error")
    ELSE LET starts == {i \in 1..(Len(text) + 1) : MatchAt(pattern.s, text, i)}
         IN IF starts = {} THEN None
            ELSE Str(SubSeq(text, Least(starts), Least(starts) + Len(pattern.s) - 1))

\* the end of RegexEvaluator.evaluate, from the match
RegexResult(actual, pattern, match) ==
    IF IsRaise(match) THEN match
    ELSE EvaluationResult(match # None, IF match # None THEN One ELSE Zero, None,
             [actual |-> actual, pattern |-> pattern, match |-> match],
             NoError)

RegexOn(actual, pattern) ==
    IF actual = None
    THEN EvaluationResult(FALSE, None, None, NoDetails,
                          Msg("No 'actual' value found in test output", ""))
    ELSE IF ~Truthy(pattern)
    THEN EvaluationResult(FALSE, None, None, NoDetails,
                          Msg("No regex pattern specified", ""))
    ELSE RegexResult(actual, pattern, re_search(pattern, PyStr(actual)))

\* the configured pattern before the pattern of the output
PatternOf_ConfigFirst(self, data) ==
    IF Truthy(_get_config_value(self, "pattern", None))
    THEN _get_config_value(self, "pattern", None) ELSE data.pattern

\* data.get("pattern") or self._get_config_value("pattern")
PatternOf(self, data) ==
    IF Truthy(data.pattern) THEN data.pattern ELSE _get_config_value(self, "pattern", None)

\* the body of the try block of RegexEvaluator.evaluate
RegexBody(self, test_output) ==
    RegexOn(_extract_test_data(test_output).actual,
            PatternOf(self, _extract_test_data(test_output)))

RegexEvaluate(self, test_output) ==
    Caught(RegexBody(self, test_output), "Regex evaluation failed: ")

(***************************************************************************)
(* The evaluators applied to bounded inputs                                *)
(***************************************************************************)
Values == {None, Num(7, 1)} \cup {Str(s) : s \in SeqsUpTo({"a", "b", "A", " "}, MaxLen)}

Thresholds == {Absent, Num(1, 2), One, Str(<<"high">>)}

Evaluator(name, threshold, method, pattern, sklearn) ==
    [t |-> "evaluator", name |-> name,
     config |-> [threshold |-> threshold, method |-> method, pattern |-> pattern],
     sklearn |-> sklearn]

StringSimilarityEvaluators ==
    {Evaluator("string_similarity", th, m, Absent, None) :
        th \in Thresholds,
        m \in {Absent, Str(<<"exact">>), Str(<<"levenshtein">>), Str(<<"jaccard">>)}}
    \cup {Evaluator("string_similarity", th, Absent, Absent, sk) :
             th \in Thresholds, sk \in {Raise("ValueError"), Num(1, 2), One}}

RegexEvaluators ==
    {Evaluator("regex", Absent, Absent, p, None) :
        p \in {Absent, Str(<<"a">>), Str(<<"(">>)}}

CaseItems ==
    {Mapping(Str(<<"a">>), Str(<<"a">>), None), Mapping(Str(<<"a">>), Str(<<"b">>), None),
     Mapping(Str(<<"a">>), None, None), Mapping(None, Str(<<"a">>), None),
     Str(<<"a">>)}

TestOutputs ==
    {Mapping(a, e, None) : a \in Values, e \in Values}
    \cup {Mapping(a, None, p) : a \in {None, Num(7, 1), Str(<<>>), Str(<<"a">>), Str(<<"b", "a">>)},
                                p \in {None, Num(7, 1)}
                                      \cup {Str(s) : s \in SeqsUpTo({"a", "b", ".", "("}, MaxLen)}}
    \cup {List(items) : items \in SeqsUpTo(CaseItems, MaxCases)}
    \cup {WithCases(Mapping(Str(<<"a">>), None, None), c) :
             c \in {None} \cup {List(items) : items \in SeqsUpTo(CaseItems, 1)}}
    \cup Values

\* StringSimilarityEvaluator(config).evaluate(test_output), seen by its caller
CallStringSimilarity ==
    /\ ev_pc = "ready"
    /\ ev_self.name = "string_similarity"
    /\ ev_out' = StringSimilarityEvaluate(ev_self, ev_input)
    /\ ev_pc' = "done"
    /\ UNCHANGED <<ev_self, ev_input, x_vars, run_vars, st_vars, cmp_vars>>

\* RegexEvaluator(config).evaluate(test_output), seen by its caller
CallRegex ==
    /\ ev_pc = "ready"
    /\ ev_self.name = "regex"
    /\ ev_out' = RegexEvaluate(ev_self, ev_input)
    /\ ev_pc' = "done"
    /\ UNCHANGED <<ev_self, ev_input, x_vars, run_vars, st_vars, cmp_vars>>

(***************************************************************************)
(* TestRunner (core/runner.py): one test case                              *)
(***************************************************************************)
Bool(b) == [t |-> "bool", b |-> b]

\* A Python dict keyed by strings, as the sequence of its items in insertion
\* order; d[k] = v keeps the place of a key the dict already holds.
DictKeys(d) == {d[i].key : i \in 1..Len(d)}
DictPut(d, k, v) ==
    IF k \in DictKeys(d)
    THEN [i \in 1..Len(d) |-> IF d[i].key = k THEN [key |-> k, value |-> v] ELSE d[i]]
    ELSE Append(d, [key |-> k, value |-> v])
DictGet(d, k) == d[CHOOSE i \in 1..Len(d) : d[i].key = k].value

\* evaluator.evaluate(test_output) for an evaluator instance of the registry:
\* the two evaluators of evaluators/base.py, or a registered custom
\* evaluator, which returns (or raises) what its author wrote
Evaluate(evaluator, test_output) ==
    IF evaluator.name = "string_similarity" THEN StringSimilarityEvaluate(evaluator, test_output)
    ELSE IF evaluator.name = "regex" THEN RegexEvaluate(evaluator, test_output)
    ELSE evaluator.returns

\* self.evaluator_registry.get_evaluator(criterion): the instance registered
\* under the name, None when there is none, or the fault the lookup raises
get_evaluator(self, criterion) == self.registry[criterion]

\* self.config.get_evaluator(criterion).weight, Absent when the configuration
\* has no entry for the criterion
ConfiguredWeight(self, criterion) == self.weights[criterion]

\* a synthetic entry {"error": message}
ErrorEntry(message) == [t |-> "dict", keys |-> {"error"}, error |-> message]

\* The state of the loop of _evaluate_test_output is the evaluations dict and
\* the log of the evaluate() calls made.
\* the entry stored after evaluate() was called: its result, or the failure
\* entry of the except clause
AfterEvaluate(acc, criterion, evaluation_result) ==
    [evaluations |-> DictPut(acc.evaluations, criterion,
                         IF IsRaise(evaluation_result)
                         THEN ErrorEntry(Msg("Evaluation failed: ", evaluation_result.exc))
                         ELSE evaluation_result),
     calls |-> Append(acc.calls, criterion)]

\* one turn of the loop of _evaluate_test_output, from what get_evaluator gave
EvaluateTurn(acc, criterion, evaluator, test_output) ==
    IF IsRaise(evaluator)
    THEN [evaluations |-> DictPut(acc.evaluations, criterion,
                              ErrorEntry(Msg("Evaluation failed: ", evaluator.exc))),
          calls |-> acc.calls]
    ELSE IF evaluator = None
    THEN [evaluations |-> DictPut(acc.evaluations, criterion,
                              ErrorEntry(Msg("Evaluator '%s' not found", criterion))),
          calls |-> acc.calls]
    ELSE AfterEvaluate(acc, criterion, Evaluate(evaluator, test_output))

\* the loop of _evaluate_test_output over the first i criteria
RECURSIVE EvaluateLoop(_, _, _, _)
EvaluateLoop(self, test_output, criteria, i) ==
    IF i = 0 THEN [evaluations |-> <<>>, calls |-> <<>>]
    ELSE EvaluateTurn(EvaluateLoop(self, test_output, criteria, i - 1), criteria[i],
                      get_evaluator(self, criteria[i]), test_output)

\* _evaluate_test_output leaving its loop after the first criterion the
\* registry does not know
_evaluate_test_output_Break(self, test_output, criteria) ==
    EvaluateLoop(self, test_output, criteria,
        IF \E i \in 1..Len(criteria) : get_evaluator(self, criteria[i]) = None
        THEN CHOOSE i \in 1..Len(criteria) :
                 /\ get_evaluator(self, criteria[i]) = None
                 /\ \A j \in 1..(i - 1) : get_evaluator(self, criteria[j]) # None
        ELSE Len(criteria))

_evaluate_test_output(self, test_output, criteria) ==
    EvaluateLoop(self, test_output, criteria, Len(criteria))

\* result["score"] < threshold
BelowThreshold(score, threshold) ==
    IF ~(IsNum(score) /\ IsNum(threshold)) THEN Raise("TypeError")
    ELSE Bool(RLess(score, threshold))

\* the body of the loop of _determine_pass_status for one item: Bool(TRUE)
\* when it returns False, Bool(FALSE) when the loop goes on
ReturnsFalse(result) ==
    IF result.t # "dict" THEN Bool(FALSE)                     \* isinstance(result, dict)
    ELSE IF "error" \in result.keys /\ result.error # NoError THEN Bool(TRUE)
    ELSE IF "passed" \in result.keys /\ ~result.passed THEN Bool(TRUE)
    ELSE IF "score" \in result.keys
    THEN BelowThreshold(result.score,
             IF "threshold" \in result.keys THEN result.threshold ELSE DefaultThreshold)
    ELSE Bool(FALSE)

\* the loop of _determine_pass_status from item i on
RECURSIVE PassLoop(_, _)
PassAfter(verdict, evaluations, i) ==
    IF IsRaise(verdict) THEN verdict
    ELSE IF verdict.b THEN Bool(FALSE)
    ELSE PassLoop(evaluations, i + 1)

PassLoop(evaluations, i) ==
    IF i > Len(evaluations) THEN Bool(TRUE)
    ELSE PassAfter(ReturnsFalse(evaluations[i].value), evaluations, i)

_determine_pass_status(evaluations) == PassLoop(evaluations, 1)

\* the condition of the loop of _calculate_overall_score
Counts(result) ==
    /\ result.t = "dict"
    /\ "score" \in result.keys
    /\ ~("error" \in result.keys /\ result.error # NoError)

\* the loop of _calculate_overall_score: the items that count, as
\* [score, weight] pairs; the weight is evaluator_config.weight if
\* evaluator_config else 1.0
Scored(self, counted) ==
    [k \in 1..Len(counted) |->
        [score |-> counted[k].value.score,
         weight |-> IF ConfiguredWeight(self, counted[k].key) # Absent
                    THEN ConfiguredWeight(self, counted[k].key)
                    ELSE One]]

ScoreLoop(self, evaluations) ==
    Scored(self, SelectSeq(evaluations, LAMBDA item : Counts(item.value)))

\* sum(score * weight ...) and sum(weights) over the pairs from i on
RECURSIVE WeightedSum(_, _, _)
WeightedSum(scored, i, acc) ==
    IF i > Len(scored) THEN acc
    ELSE IF ~IsNum(scored[i].score) THEN Raise("TypeError")          \* None * weight
    ELSE WeightedSum(scored, i + 1, RAdd(acc, RMul(scored[i].score, scored[i].weight)))

RECURSIVE TotalWeight(_, _, _)
TotalWeight(scored, i, acc) ==
    IF i > Len(scored) THEN acc
    ELSE TotalWeight(scored, i + 1, RAdd(acc, scored[i].weight))

\* the end of _calculate_overall_score, from the scores and weights
OverallScore(scored) ==
    IF scored = <<>> THEN None
    ELSE IF IsRaise(WeightedSum(scored, 1, Zero)) THEN WeightedSum(scored, 1, Zero)
    ELSE RDiv(WeightedSum(scored, 1, Zero), TotalWeight(scored, 1, Zero))

_calculate_overall_score(self, evaluations) == OverallScore(ScoreLoop(self, evaluations))

\* TestResult(...) of core/decorators.py; score, error and evaluations are
\* None unless given
TestResult(test_name, passed, score, duration, details, error, evaluations) ==
    [t |-> "TestResult", test_name |-> test_name, passed |-> passed, score |-> score,
     duration |-> duration, details |-> details, error |-> error,
     evaluations |-> evaluations]

NoEvaluations == <<>>

\* what the try block of execute_test ends in: the TestResult returned or the
\* exception that leaves the block
Outcome(test_case, test_output, evaluations, passed, score) ==
    IF IsRaise(passed) THEN passed
    ELSE IF IsRaise(score) THEN score
    ELSE TestResult(test_case.name, passed.b, score, Num(test_case.elapsed, 1),
                    [output |-> test_output], NoError, evaluations)

\* the try block after _evaluate_test_output: its outcome, with the
\* evaluations built and the evaluate() calls made
AfterEvaluations(self, test_case, test_output, loop) ==
    [outcome |-> Outcome(test_case, test_output, loop.evaluations,
                         _determine_pass_status(loop.evaluations),
                         _calculate_overall_score(self, loop.evaluations)),
     evaluations |-> loop.evaluations, calls |-> loop.calls]

\* The try block of execute_test.  test_case.function is what calling the
\* test function does: the output it returns or the exception it raises.
\* test_case.elapsed is the time the clock shows to have passed when the
\* duration is taken.
ExecuteTestTry(self, test_case) ==
    IF IsRaise(test_case.function)
    THEN [outcome |-> test_case.function, evaluations |-> NoEvaluations, calls |-> <<>>]
    ELSE AfterEvaluations(self, test_case, test_case.function,
             _evaluate_test_output(self, test_case.function, test_case.criteria))

\* execute_test with no except clause: the exception leaves execute_test
Propagate(self, test_case, verbose, try) ==
    [result |-> try.outcome, evaluations |-> try.evaluations, calls |-> try.calls,
     raised |-> IsRaise(try.outcome)]

\* the except clause of execute_test, after the try block
Except(self, test_case, verbose, try) ==
    [result |-> IF IsRaise(try.outcome)
                THEN TestResult(test_case.name, FALSE, None, Num(test_case.elapsed, 1),
                                NoDetails,
                                Msg(try.outcome.exc, IF verbose THEN "traceback" ELSE ""),
                                NoEvaluations)
                ELSE try.outcome,
     evaluations |-> try.evaluations, calls |-> try.calls,
     raised |-> FALSE]

\* execute_test: the result returned, with the evaluations built and the
\* evaluate() calls made on the way; raised tells that an exception left it
ExecuteTestRun(self, test_case, verbose) ==
    Except(self, test_case, verbose, ExecuteTestTry(self, test_case))

(***************************************************************************)
(* execute_test applied to bounded test cases and runners                  *)
(***************************************************************************)
MaxCriteria == 2     \* longest criteria list of a test case

Criteria == {"string_similarity", "custom_a", "custom_b", "unknown", "faulty"}

Dict(keys, error, passed, score, threshold) ==
    [t |-> "dict", keys |-> keys, error |-> error, passed |-> passed,
     score |-> score, threshold |-> threshold]

CustomEvaluator(returns) == [t |-> "evaluator", name |-> "custom", returns |-> returns]

\* what the custom evaluator registered as custom_a returns from evaluate()
CustomReturnsA ==
    {Dict({"error", "passed", "score", "threshold"}, Msg("judge unavailable", ""), TRUE,
          One, DefaultThreshold),
     Dict({"passed"}, NoError, FALSE, None, None),
     Dict({"passed"}, NoError, TRUE, None, None),
     Dict({"score"}, NoError, TRUE, DefaultThreshold, None),
     Dict({"score"}, NoError, TRUE, Num(9, 10), None),
     Dict({"score"}, NoError, TRUE, Num(1, 2), None),
     Dict({"passed", "score", "threshold"}, NoError, TRUE, Num(1, 2), Num(1, 2)),
     Dict({"passed", "score", "threshold"}, NoError, TRUE, Num(9, 10), One),
     to_dict(EvaluationResult(TRUE, None, None, NoDetails, NoError)),
     EvaluationResult(FALSE, None, None, NoDetails, Msg("judge unavailable", "")),
     EvaluationResult(TRUE, One, One, NoDetails, NoError),
     Raise("RuntimeError")}

CustomReturnsB ==
    {Dict({"score"}, NoError, TRUE, Num(1, 2), None),
     Dict({"score"}, NoError, TRUE, One, None),
     Dict({"passed", "score", "threshold"}, NoError, FALSE, One, DefaultThreshold),
     EvaluationResult(FALSE, Zero, DefaultThreshold, NoDetails, NoError)}

Runner(returns_a, returns_b, weight_a, weight_b) ==
    [registry |->
        [c \in Criteria |->
            CASE c = "string_similarity" ->
                   Evaluator("string_similarity", Absent, Str(<<"exact">>), Absent, None)
              [] c = "custom_a" -> CustomEvaluator(returns_a)
              [] c = "custom_b" -> CustomEvaluator(returns_b)
              [] c = "faulty" -> Raise("KeyError")
              [] OTHER -> None],
     weights |->
        [c \in Criteria |->
            CASE c = "custom_a" -> weight_a
              [] c = "custom_b" -> weight_b
              [] OTHER -> Absent]]

\* the runners for a criteria list: the registry and configuration entries of
\* a criterion the list does not name do not matter, and take one value each
Runners(criteria) ==
    {Runner(ra, rb, wa, wb) :
        ra \in IF "custom_a" \in SetOf(criteria) THEN CustomReturnsA ELSE {None},
        rb \in IF "custom_b" \in SetOf(criteria) THEN CustomReturnsB ELSE {None},
        wa \in IF "custom_a" \in SetOf(criteria) THEN {Absent, Num(2, 1), Zero} ELSE {Absent},
        wb \in IF "custom_b" \in SetOf(criteria) THEN {Absent, Zero} ELSE {Absent}}

\* what calling a test function does
Functions ==
    {Raise("ValueError"),
     Mapping(Str(<<"a">>), Str(<<"a">>), None),
     Mapping(Str(<<"a">>), Str(<<"b">>), None),
     Mapping(None, None, None),
     Str(<<"a">>)}

TestCase(name, criteria, tags, function, elapsed) ==
    [name |-> name, criteria |-> criteria, tags |-> tags, function |-> function,
     elapsed |-> elapsed]

\* TestRunner.execute_test(test_case, verbose), seen by its caller
CallExecuteTest ==
    /\ x_pc = "ready"
    /\ x_out' = ExecuteTestRun(x_self, x_case, x_verbose)
    /\ x_pc' = "done"
    /\ UNCHANGED <<x_self, x_case, x_verbose, ev_vars, run_vars, st_vars, cmp_vars>>

(***************************************************************************)
(* TestRunner.run_tests                                                    *)
(***************************************************************************)
MaxTests == 2        \* most test cases discovery returns

\* TestResults() of core/decorators.py and its add_result
TestResults == [test_results |-> <<>>, metadata |-> None]
add_result(rs, result) == [rs EXCEPT !.test_results = Append(@, result)]

TestNames == <<"test_a", "test_b", "test_c", "test_d">>

\* the test cases discovery may return in one place of its list
CasesNamed(name) ==
    {TestCase(name, <<"string_similarity">>, tg, f, 1) :
        tg \in {{}, {"slow"}},
        f \in {Raise("ValueError"), Mapping(Str(<<"a">>), Str(<<"b">>), None)}}
    \cup {TestCase(name, <<"custom_a", "unknown">>, {"slow"},
                   Mapping(Str(<<"a">>), Str(<<"b">>), None), 1)}

\* the lists of at most k test cases discovery may return
Suites(k) ==
    UNION {{q \in [1..n -> UNION {CasesNamed(TestNames[i]) : i \in 1..n}] :
               \A i \in 1..n : q[i].name = TestNames[i]} : n \in 0..k}

Selected(discovered, tags) ==
    IF tags # {} THEN SelectSeq(discovered, LAMBDA tc : tc.tags \cap tags # {})
    ELSE discovered

\* run_tests up to its for loop: discovery, the tag filter, the early return
RunTestsBegin ==
    /\ run_pc = "start"
    /\ IF IsRaise(run_args.discovered)
       THEN /\ run_pc' = "raised"
            /\ UNCHANGED <<run_cases, run_i, run_results>>
       ELSE /\ run_cases' = Selected(run_args.discovered.items, run_args.tags)
            /\ run_results' = TestResults
            /\ IF run_cases' = <<>>
               THEN run_pc' = "returned" /\ UNCHANGED run_i
               ELSE run_pc' = "loop" /\ run_i' = 1
    /\ UNCHANGED <<run_self, run_args, ev_vars, x_vars, st_vars, cmp_vars>>

\* one turn of the for loop: execute_test, then add_result, unless an
\* exception left execute_test
RunTestsExecute ==
    /\ run_pc = "loop"
    /\ run_i <= Len(run_cases)
    /\ \E run \in {ExecuteTestRun(run_self, run_cases[run_i], run_args.verbose)} :
          IF run.raised
          THEN run_pc' = "raised" /\ UNCHANGED <<run_i, run_results>>
          ELSE /\ run_results' = add_result(run_results, run.result)
               /\ run_i' = run_i + 1
               /\ UNCHANGED run_pc
    /\ UNCHANGED <<run_self, run_args, run_cases, ev_vars, x_vars, st_vars, cmp_vars>>

\* after the loop: the metadata, and the return
RunTestsReturn ==
    /\ run_pc = "loop"
    /\ run_i > Len(run_cases)
    /\ run_results' = [run_results EXCEPT !.metadata =
                      [pattern |-> run_args.pattern, tags |-> run_args.tags,
                       verbose |-> run_args.verbose]]
    /\ run_pc' = "returned"
    /\ UNCHANGED <<run_self, run_args, run_cases, run_i, ev_vars, x_vars, st_vars, cmp_vars>>

(***************************************************************************)
(* GitLogger (core/git_logger.py): the store of revision records           *)
(*                                                                         *)
(* A timestamp is the clock reading of datetime.now(), in half seconds: two*)
(* timestamps t, u fall in the same second when t \div 2 = u \div 2.  A    *)
(* record file is [name, entry, mtime, place]; results_dir holds at most   *)
(* one file of a name.  place is the position of the file among the record *)
(* files in the order the directory lists them: a new file may take any    *)
(* place, and the order of the others does not change.                     *)
(***************************************************************************)
MaxRuns == 3         \* most log_results calls of a behaviour
IndexLimit == 2      \* runs the index keeps: the 100 of index["runs"][:100], scaled to MaxRuns
ShortLen == 8        \* hexsha[:8], ref[:8]

\* a commit id of ShortLen + 1 characters
Sha(c, last) == [i \in 1..(ShortLen + 1) |-> IF i <= ShortLen THEN c ELSE last]

\* s[:ShortLen]
Short(s) == SubSeq(s, 1, Min2(Len(s), ShortLen))

Unknown == Str(<<"u", "n", "k", "n", "o", "w", "n">>)
Main == <<"m", "a", "i", "n">>
Dev == <<"d", "e", "v">>

\* d.get(key, default) for the value v the mapping holds under key
Get(v, default) == IF v = Absent THEN default ELSE v

\* the git_info of a readable repository; of its other keys (commit_message,
\* author, changed_files, ...) nothing in the store depends
GitInfo(commit, branch) ==
    [t |-> "dict", commit_hash |-> Str(commit), commit_hash_short |-> Str(Short(commit)),
     branch |-> Str(branch), error |-> Absent]

\* {"error": message}
GitMarker(message) ==
    [t |-> "dict", commit_hash |-> Absent, commit_hash_short |-> Absent,
     branch |-> Absent, error |-> message]

\* the state of the repository at a call: the commit of HEAD and the active
\* branch (None: a detached HEAD), or the exception reading it raises
RepoHead(commit, branch) == [t |-> "head", commit |-> commit, branch |-> branch]

_get_git_info(repo, head) ==
    IF repo = None THEN GitMarker(Msg("Git not available", ""))
    ELSE IF IsRaise(head) THEN GitMarker(Msg("Failed to get git info: ", head.exc))
    ELSE GitInfo(head.commit, IF head.branch = None THEN <<"d", "e", "t", "a", "c", "h", "e", "d">>
                              ELSE head.branch.s)

\* results.get_summary() of core/decorators.py
get_summary(results) ==
    [total |-> Len(results.test_results),
     passed |-> Len(SelectSeq(results.test_results, LAMBDA r : r.passed)),
     failed |-> Len(SelectSeq(results.test_results, LAMBDA r : ~r.passed))]

\* json.dump(..., default=str) and json.load of the evaluations of a test: an
\* object JSON cannot hold becomes its str()
JsonEvaluations(evaluations) ==
    [k \in 1..Len(evaluations) |->
        [key |-> evaluations[k].key,
         value |-> IF evaluations[k].value.t = "EvaluationResult"
                   THEN Str(<<"EvaluationResult(...)">>)
                   ELSE evaluations[k].value]]

\* the log entry of log_results, as json.load reads it back from its file
LogEntry(timestamp, git_info, results) ==
    [timestamp |-> timestamp,
     git_info |-> git_info,
     summary |-> get_summary(results),
     test_results |->
        [k \in 1..Len(results.test_results) |->
            [test_name |-> results.test_results[k].test_name,
             passed |-> results.test_results[k].passed,
             score |-> results.test_results[k].score,
             duration |-> results.test_results[k].duration,
             error |-> results.test_results[k].error,
             evaluations |-> JsonEvaluations(results.test_results[k].evaluations)]],
     metadata |-> results.metadata]

\* f"{timestamp.strftime('%Y%m%d_%H%M%S')}_{commit_hash}.json"
Filename(log_entry) ==
    [second |-> log_entry.timestamp \div 2,
     commit |-> Get(log_entry.git_info.commit_hash_short, Unknown)]

\* open(filepath, 'w') and json.dump: the content of a file of that name is
\* replaced; a new file takes the given place of the directory
_save_log_entry(files, log_entry, place) ==
    IF \E f \in files : f.name = Filename(log_entry)
    THEN {IF f.name = Filename(log_entry)
          THEN [f EXCEPT !.entry = log_entry, !.mtime = log_entry.timestamp]
          ELSE f : f \in files}
    ELSE {[f EXCEPT !.place = IF f.place >= place THEN f.place + 1 ELSE f.place] : f \in files}
         \cup {[name |-> Filename(log_entry), entry |-> log_entry,
                mtime |-> log_entry.timestamp, place |-> place]}

EntrySummary(log_entry, filename) ==
    [timestamp |-> log_entry.timestamp,
     commit_hash |-> Get(log_entry.git_info.commit_hash, None),
     commit_hash_short |-> Get(log_entry.git_info.commit_hash_short, None),
     branch |-> Get(log_entry.git_info.branch, None),
     summary |-> log_entry.summary,
     filename |-> filename]

\* list.sort(key=timestamp, reverse=True): a stable sort, so runs of equal
\* timestamps keep their order
InsertRun(sorted, run) ==
    LET k == Cardinality({i \in 1..Len(sorted) : sorted[i].timestamp >= run.timestamp})
    IN SubSeq(sorted, 1, k) \o <<run>> \o SubSeq(sorted, k + 1, Len(sorted))

RECURSIVE SortRuns(_, _)
SortRuns(runs, i) == IF i = 0 THEN <<>> ELSE InsertRun(SortRuns(runs, i - 1), runs[i])

\* the last 100 of the list instead of the first
Limit_Oldest(runs) ==
    SubSeq(runs, Len(runs) + 1 - Min2(Len(runs), IndexLimit), Len(runs))

\* index["runs"][:100]
Limit(runs) == SubSeq(runs, 1, Min2(Len(runs), IndexLimit))

\* a bucket for the key None too
Bucket_NoneToo(buckets, key, entry_summary) ==
    DictPut(buckets, key,
            Append(IF key \in DictKeys(buckets) THEN DictGet(buckets, key) ELSE <<>>,
                   entry_summary))

\* the bucket of key extended by the entry; nothing for a key that is None
Bucket(buckets, key, entry_summary) ==
    IF key = None THEN buckets
    ELSE DictPut(buckets, key,
                 Append(IF key \in DictKeys(buckets) THEN DictGet(buckets, key) ELSE <<>>,
                        entry_summary))

Updated(index, entry_summary) ==
    [runs |-> Limit(SortRuns(Append(index.runs, entry_summary), Len(index.runs) + 1)),
     by_commit |-> Bucket(index.by_commit, entry_summary.commit_hash, entry_summary),
     by_branch |-> Bucket(index.by_branch, entry_summary.branch, entry_summary)]

_update_index(index, log_entry) ==
    Updated(IF index = None THEN [runs |-> <<>>, by_commit |-> <<>>, by_branch |-> <<>>]
            ELSE index,
            EntrySummary(log_entry, Filename(log_entry)))

\* the sequences that list the elements of S once each: the orders in which
\* the iteration of a set may give them
Listings(S) ==
    {q \in [1..Cardinality(S) -> S] : \A i, j \in 1..Cardinality(S) : i # j => q[i] # q[j]}

\* the name index.json, which no record file has
IndexName == [second |-> 0, commit |-> Str(<<"i", "n", "d", "e", "x">>)]

\* self.results_dir.glob("*.json"): the record files by place, and index.json
\* when it exists, after k of them
Glob(files, index, k) ==
    LET records == [i \in 1..Cardinality(files) |-> CHOOSE f \in files : f.place = i]
    IN IF index = None THEN records
       ELSE SubSeq(records, 1, k)
            \o <<[name |-> IndexName, entry |-> index, mtime |-> 0, place |-> 0]>>
            \o SubSeq(records, k + 1, Len(records))

\* _rebuild_index that takes index.json for a record too
_rebuild_index_All(listing) ==
    [runs |-> SortRuns([k \in 1..Len(listing) |->
                           IF listing[k].name = IndexName
                           THEN [timestamp |-> listing[k].mtime, commit_hash |-> None,
                                 commit_hash_short |-> None, branch |-> None,
                                 summary |-> None, filename |-> listing[k].name]
                           ELSE EntrySummary(listing[k].entry, listing[k].name)],
                       Len(listing)),
     by_commit |-> <<>>,
     by_branch |-> <<>>]

\* _rebuild_index for the files in the order glob gives them
_rebuild_index(listing) ==
    LET records == SelectSeq(listing, LAMBDA f : f.name # IndexName)
    IN [runs |-> SortRuns([k \in 1..Len(records) |->
                              EntrySummary(records[k].entry, records[k].name)],
                          Len(records)),
        by_commit |-> <<>>,
        by_branch |-> <<>>]

\* the test of the loop of _get_results_for_ref
Matches(run, ref) ==
    \/ run.commit_hash_short = Str(Short(ref.s))
    \/ run.commit_hash = ref
    \/ run.branch = ref

Greatest(S) == CHOOSE x \in S : \A y \in S : y <= x

\* get_history(limit, commit, branch): the filters apply when commit, branch
\* are truthy; runs[:limit] counts a negative limit from the end
get_history(index, limit, commit, branch) ==
    IF index = None THEN <<>>
    ELSE LET runs == SelectSeq(index.runs,
                         LAMBDA run :
                             /\ Truthy(commit) =>
                                    \/ run.commit_hash_short = Str(Short(commit.s))
                                    \/ run.commit_hash = commit
                             /\ Truthy(branch) => run.branch = branch)
         IN SubSeq(runs, 1, IF limit >= 0 THEN Min2(limit, Len(runs))
                            ELSE IF Len(runs) + limit >= 0 THEN Len(runs) + limit ELSE 0)

\* json.load of the file of the first run found
Loaded(runs, files, found) ==
    IF found = {} THEN None
    ELSE (CHOOSE f \in files : f.name = runs[Least(found)].filename).entry

\* _get_results_for_ref: the record of the first run of the index that
\* matches and whose file exists, None when there is none or no index
_get_results_for_ref(index, files, ref) ==
    IF index = None THEN None
    ELSE Loaded(index.runs, files,
                {i \in 1..Len(index.runs) :
                    /\ Matches(index.runs[i], ref)
                    /\ \E f \in files : f.name = index.runs[i].filename})

\* {test["test_name"]: test for test in test_results}: the last test of a name
TestsByName(test_results) ==
    [name \in {test_results[k].test_name : k \in 1..Len(test_results)} |->
        test_results[Greatest({k \in 1..Len(test_results) : test_results[k].test_name = name})]]

\* target_test_names - base_test_names with every target name kept
NewNames_All(base_test_names, target_test_names) == target_test_names

NewNames(base_test_names, target_test_names) == target_test_names \ base_test_names
RemovedNames(base_test_names, target_test_names) == base_test_names \ target_test_names
CommonNames(base_test_names, target_test_names) == base_test_names \cap target_test_names

\* an entry of improvements or regressions: the string the code formats, by
\* its parts; by is the change in hundredths, 0 for a pass/fail flip
Entry(list, test_name, change, by) ==
    [list |-> list, test_name |-> test_name, change |-> change, by |-> by]

\* the pass/fail comparison with its two lists exchanged
Flip_Exchanged(test_name, base_test, target_test) ==
    IF base_test.passed # target_test.passed
    THEN IF target_test.passed
         THEN <<Entry("regressions", test_name, "FAIL -> PASS", 0)>>
         ELSE <<Entry("improvements", test_name, "PASS -> FAIL", 0)>>
    ELSE <<>>

\* the pass/fail comparison of one common test
Flip(test_name, base_test, target_test) ==
    IF base_test.passed # target_test.passed
    THEN IF target_test.passed
         THEN <<Entry("improvements", test_name, "FAIL -> PASS", 0)>>
         ELSE <<Entry("regressions", test_name, "PASS -> FAIL", 0)>>
    ELSE <<>>

\* abs(x)
RAbs(x) == Num(IF x.n < 0 THEN -x.n ELSE x.n, x.d)

\* f"{x:.2f}" of x >= 0, in hundredths: the nearest, the even one of two
NearestEven(floor, rest, d) ==
    IF 2 * rest > d THEN floor + 1
    ELSE IF 2 * rest < d THEN floor
    ELSE IF floor % 2 = 0 THEN floor ELSE floor + 1

Hundredths(x) == NearestEven((x.n * 100) \div x.d, (x.n * 100) % x.d, x.d)

\* the score comparison reporting a difference of 0.1 too
ScoreEntry_AtLeast(test_name, score_diff) ==
    IF ~RLess(RAbs(score_diff), Num(1, 10))
    THEN IF RLess(Zero, score_diff)
         THEN <<Entry("improvements", test_name, "score improved by", Hundredths(score_diff))>>
         ELSE <<Entry("regressions", test_name, "score decreased by",
                      Hundredths(RAbs(score_diff)))>>
    ELSE <<>>

\* if abs(score_diff) > 0.1: the entry appended
ScoreEntry(test_name, score_diff) ==
    IF RLess(Num(1, 10), RAbs(score_diff))
    THEN IF RLess(Zero, score_diff)
         THEN <<Entry("improvements", test_name, "score improved by", Hundredths(score_diff))>>
         ELSE <<Entry("regressions", test_name, "score decreased by",
                      Hundredths(RAbs(score_diff)))>>
    ELSE <<>>

\* the score comparison of one common test
ScoreChange(test_name, base_test, target_test) ==
    IF base_test.score # None /\ target_test.score # None
    THEN ScoreEntry(test_name, RSub(target_test.score, base_test.score))
    ELSE <<>>

\* the loop over the common tests, in the order the set gives them: the
\* entries appended, each with the list it goes to
RECURSIVE Changes(_, _, _, _)
Changes(common_tests, base_tests, target_tests, i) ==
    IF i = 0 THEN <<>>
    ELSE Changes(common_tests, base_tests, target_tests, i - 1)
         \o Flip(common_tests[i], base_tests[common_tests[i]], target_tests[common_tests[i]])
         \o ScoreChange(common_tests[i], base_tests[common_tests[i]],
                        target_tests[common_tests[i]])

Compared(base, target, base_results, target_results, orders, changes) ==
    [t |-> "dict", base |-> base, target |-> target,
     base_timestamp |-> base_results.timestamp,
     target_timestamp |-> target_results.timestamp,
     improvements |-> SelectSeq(changes, LAMBDA e : e.list = "improvements"),
     regressions |-> SelectSeq(changes, LAMBDA e : e.list = "regressions"),
     new_tests |-> orders.new,
     removed_tests |-> orders.removed]

\* compare_results from the two records on; orders: the orders in which
\* list() and the for loop go through the three sets of names
Comparison(base, target, base_results, target_results, orders) ==
    Compared(base, target, base_results, target_results, orders,
             Changes(orders.common, TestsByName(base_results.test_results),
                     TestsByName(target_results.test_results), Len(orders.common)))

\* the orders in which list() and the for loop may go through the three sets
\* of names, from the keys of base_tests and target_tests
Orders(base_test_names, target_test_names) ==
    {[new |-> n, removed |-> r, common |-> c] :
        n \in Listings(NewNames(base_test_names, target_test_names)),
        r \in Listings(RemovedNames(base_test_names, target_test_names)),
        c \in Listings(CommonNames(base_test_names, target_test_names))}

\* GitError(f"No test results found for {side}: {ref}")
GitError(side, ref) == [t |-> "raise", exc |-> "GitError", side |-> side, ref |-> ref]

Comparisons(base, target, base_results, target_results) ==
    IF base_results = None THEN {GitError("base", base)}
    ELSE IF target_results = None THEN {GitError("target", target)}
    ELSE {Comparison(base, target, base_results, target_results, orders) :
             orders \in Orders(DOMAIN TestsByName(base_results.test_results),
                               DOMAIN TestsByName(target_results.test_results))}

\* compare_results(base, target): what it may return or raise
compare_results(index, files, base, target) ==
    Comparisons(base, target, _get_results_for_ref(index, files, base),
                _get_results_for_ref(index, files, target))

(***************************************************************************)
(* The calls made on a GitLogger                                           *)
(***************************************************************************)
CommitA == Sha("a", "1")
CommitB == Sha("b", "1")

\* what reading the repository gives at a call
Heads ==
    {RepoHead(CommitA, Str(Main)), RepoHead(CommitA, Str(Dev)), RepoHead(CommitB, None),
     Raise("ValueError")}

\* the TestResults handed to log_results
LoggedRuns ==
    {[test_results |->
         <<TestResult("t_a", TRUE, Num(9, 10), One, NoDetails, NoError,
                      <<[key |-> "string_similarity",
                         value |-> EvaluationResult(TRUE, One, DefaultThreshold, NoDetails,
                                                    NoError)]>>),
           TestResult("t_b", FALSE, None, One, NoDetails, Msg("ValueError", ""),
                      NoEvaluations)>>,
      metadata |-> None]}

\* the (base, target) pairs given to compare_results: branches, a short id,
\* a full id, an id that shares its short form with CommitA, no ref of a run
RefPairs ==
    {<<Str(Main), Str(Dev)>>, <<Str(Dev), Str(Main)>>,
     <<Str(Short(CommitA)), Str(CommitB)>>, <<Str(Sha("a", "2")), Str(Main)>>,
     <<Str(Main), Str(<<"x">>)>>, <<Str(<<"x">>), Str(Main)>>,
     <<Str(<<"x">>), Str(<<"y">>)>>}

\* log_results(results), at a clock reading not earlier than the last one:
\* the log entry is prepared, its file written, the index updated.  Without
\* a repository, the head is not read.  st_call is the last call made on the
\* logger: its name, its arguments, what it returned or raised.
LogResults ==
    /\ st_logged < MaxRuns
    /\ \E head \in IF st_repo = None THEN {None} ELSE Heads,
          results \in LoggedRuns,
          timestamp \in {st_now, st_now + 1},
          place \in 1..(Cardinality(st_files) + 1) :
           \E log_entry \in {LogEntry(timestamp, _get_git_info(st_repo, head), results)} :
              /\ st_now' = timestamp
              /\ st_files' = _save_log_entry(st_files, log_entry, place)
              /\ st_index' = _update_index(st_index, log_entry)
    /\ st_logged' = st_logged + 1
    /\ st_call' = [op |-> "log_results", base |-> None, target |-> None, out |-> None]
    /\ UNCHANGED <<st_repo, ev_vars, x_vars, run_vars, cmp_vars>>

\* compare_results(base, target)
CompareResults ==
    /\ \E pair \in RefPairs :
          \E out \in compare_results(st_index, st_files, pair[1], pair[2]) :
              st_call' = [op |-> "compare_results", base |-> pair[1], target |-> pair[2],
                          out |-> out]
    /\ UNCHANGED <<st_repo, st_now, st_files, st_index, st_logged,
                   ev_vars, x_vars, run_vars, cmp_vars>>

\* get_history(limit, commit, branch); the commits given are none, a short
\* id, a full id, an id that shares its short form with CommitA, the first
\* two characters of CommitA
GetHistory ==
    /\ \E limit \in 0..2,
          commit \in {None, Str(Short(CommitA)), Str(CommitA), Str(Sha("a", "2")),
                      Str(SubSeq(CommitA, 1, 2))},
          branch \in {None, Str(Main)} :
          st_call' = [op |-> "get_history", limit |-> limit, commit |-> commit,
                      branch |-> branch,
                      out |-> get_history(st_index, limit, commit, branch)]
    /\ UNCHANGED <<st_repo, st_now, st_files, st_index, st_logged,
                   ev_vars, x_vars, run_vars, cmp_vars>>

\* file_path.stat().st_mtime < cutoff_time
Expired_AtCutoff(f, cutoff_time) == f.mtime <= cutoff_time

Expired(f, cutoff_time) == f.mtime < cutoff_time

\* cleanup_old_results(days): the record files modified before the cutoff are
\* deleted, the index is rebuilt from the files left, which keep their order.
\* The cutoffs are one for each set of files days can make it delete; st_call
\* keeps the cutoff of the call.
CleanupOldResults ==
    /\ \E cutoff_time \in {f.mtime : f \in st_files} \cup {st_now + 1} :
          \E kept \in {{f \in st_files : ~Expired(f, cutoff_time)}} :
             /\ st_files' = {[f EXCEPT !.place = Cardinality({g \in kept : g.place <= f.place})] :
                                f \in kept}
             /\ \E k \in 0..Cardinality(kept) :
                   st_index' = _rebuild_index(Glob(st_files', st_index, k))
             /\ st_call' = [op |-> "cleanup_old_results", cutoff_time |-> cutoff_time,
                            target |-> None, out |-> None]
    /\ UNCHANGED <<st_repo, st_now, st_logged, ev_vars, x_vars, run_vars, cmp_vars>>

(***************************************************************************)
(* compare_results applied to bounded pairs of records                     *)
(***************************************************************************)
MaxRecTests == 2     \* most tests of a record compared

\* the results a compared record may hold; a name may come twice.  The scores
\* are floats whose differences the float subtraction gives exactly: 0.0, 0.1
\* (the float the literal 0.1 of the code is) and 0.5.
ComparedTests ==
    {TestResult("t_a", c[1], c[2], One, NoDetails, NoError, NoEvaluations) :
        c \in {<<TRUE, None>>, <<FALSE, None>>, <<TRUE, Zero>>, <<FALSE, Num(1, 10)>>,
               <<TRUE, Num(1, 2)>>, <<FALSE, Num(1, 2)>>}}
    \cup {TestResult("t_b", p, None, One, NoDetails, NoError, NoEvaluations) : p \in BOOLEAN}

\* the records log_results writes for them
Records(timestamp, branch) ==
    {LogEntry(timestamp, GitInfo(CommitA, branch), [test_results |-> q, metadata |-> None]) :
        q \in SeqsUpTo(ComparedTests, MaxRecTests)}

\* compare_results once both records are loaded
Compare ==
    /\ cmp_pc = "ready"
    /\ \E orders \in Orders(DOMAIN TestsByName(cmp_base.test_results),
                           DOMAIN TestsByName(cmp_target.test_results)) :
          cmp_out' = Comparison(Str(Main), Str(Dev), cmp_base, cmp_target, orders)
    /\ cmp_pc' = "done"
    /\ UNCHANGED <<cmp_base, cmp_target, ev_vars, x_vars, run_vars, st_vars>>

(***************************************************************************)
(* Specifications                                                          *)
(***************************************************************************)
\* the evaluators of evaluators/base.py called on every bounded input
EvalInit ==
    /\ ev_self \in StringSimilarityEvaluators \cup RegexEvaluators
    /\ ev_input \in TestOutputs
    /\ ev_out = None
    /\ ev_pc = "ready"
    /\ x_case = None /\ x_self = None /\ x_verbose = FALSE /\ x_out = None /\ x_pc = "idle"
    /\ run_self = None /\ run_args = None /\ run_cases = <<>> /\ run_i = 0
    /\ run_results = None /\ run_pc = "idle"
    /\ st_repo = None /\ st_now = 0 /\ st_files = {} /\ st_index = None /\ st_logged = 0
    /\ st_call = None
    /\ cmp_base = None /\ cmp_target = None /\ cmp_out = None /\ cmp_pc = "idle"

EvalSpec == EvalInit /\ [][CallStringSimilarity \/ CallRegex]_vars

\* execute_test called on every bounded test case and runner
ExecInit ==
    /\ x_case \in {TestCase("test_a", c, {}, f, e) :
                      c \in SeqsUpTo(Criteria, MaxCriteria), f \in Functions, e \in {0, 1}}
    /\ x_self \in Runners(x_case.criteria)
    /\ x_verbose \in BOOLEAN
    /\ x_out = None
    /\ x_pc = "ready"
    /\ ev_self = None /\ ev_input = None /\ ev_out = None /\ ev_pc = "idle"
    /\ run_self = None /\ run_args = None /\ run_cases = <<>> /\ run_i = 0
    /\ run_results = None /\ run_pc = "idle"
    /\ st_repo = None /\ st_now = 0 /\ st_files = {} /\ st_index = None /\ st_logged = 0
    /\ st_call = None
    /\ cmp_base = None /\ cmp_target = None /\ cmp_out = None /\ cmp_pc = "idle"

ExecSpec == ExecInit /\ [][CallExecuteTest]_vars

\* run_tests on every bounded discovery result.  tags: the filter argument
\* (the empty set: none given); discovered: what discover_tests(path, pattern)
\* does, the list it returns or the TestDiscoveryError it raises
Init ==
    /\ run_self \in {Runner(ra, None, Absent, Absent) :
                        ra \in {to_dict(EvaluationResult(TRUE, None, None, NoDetails, NoError)),
                                Raise("RuntimeError")}}
    /\ run_args \in {[tags |-> tg, verbose |-> vb, pattern |-> "test_*.py", discovered |-> d] :
                        tg \in {{}, {"slow"}}, vb \in BOOLEAN,
                        d \in {List(q) : q \in Suites(MaxTests)}
                              \cup {Raise("TestDiscoveryError")}}
    /\ run_cases = <<>>
    /\ run_i = 0
    /\ run_results = None
    /\ run_pc = "start"
    /\ ev_self = None /\ ev_input = None /\ ev_out = None /\ ev_pc = "idle"
    /\ x_case = None /\ x_self = None /\ x_verbose = FALSE /\ x_out = None /\ x_pc = "idle"
    /\ st_repo = None /\ st_now = 0 /\ st_files = {} /\ st_index = None /\ st_logged = 0
    /\ st_call = None
    /\ cmp_base = None /\ cmp_target = None /\ cmp_out = None /\ cmp_pc = "idle"

Next == RunTestsBegin \/ RunTestsExecute \/ RunTestsReturn
Spec == Init /\ [][Next]_vars

\* run_tests is one sequential call: while a step of it is left, it is taken
FairSpec == Spec /\ WF_vars(Next)

\* a GitLogger on an empty results_dir, under every bounded sequence of calls
StoreInit ==
    /\ st_repo \in {None, Str(<<"r", "e", "p", "o">>)}
    /\ st_now = 0
    /\ st_files = {}
    /\ st_index = None
    /\ st_logged = 0
    /\ st_call = [op |-> "init", base |-> None, target |-> None, out |-> None]
    /\ ev_self = None /\ ev_input = None /\ ev_out = None /\ ev_pc = "idle"
    /\ x_case = None /\ x_self = None /\ x_verbose = FALSE /\ x_out = None /\ x_pc = "idle"
    /\ run_self = None /\ run_args = None /\ run_cases = <<>> /\ run_i = 0
    /\ run_results = None /\ run_pc = "idle"
    /\ cmp_base = None /\ cmp_target = None /\ cmp_out = None /\ cmp_pc = "idle"

StoreSpec == StoreInit /\ [][LogResults \/ CompareResults \/ CleanupOldResults]_vars

\* the logger when only log_results and cleanup_old_results are called
LogSpec == StoreInit /\ [][LogResults \/ CleanupOldResults]_vars

\* the logger when runs are logged and the history is read
HistorySpec == StoreInit /\ [][LogResults \/ GetHistory]_vars

\* compare_results on every bounded pair of records
CmpInit ==
    /\ cmp_base \in Records(1, Main)
    /\ cmp_target \in Records(2, Dev)
    /\ cmp_out = None
    /\ cmp_pc = "ready"
    /\ ev_self = None /\ ev_input = None /\ ev_out = None /\ ev_pc = "idle"
    /\ x_case = None /\ x_self = None /\ x_verbose = FALSE /\ x_out = None /\ x_pc = "idle"
    /\ run_self = None /\ run_args = None /\ run_cases = <<>> /\ run_i = 0
    /\ run_results = None /\ run_pc = "idle"
    /\ st_repo = None /\ st_now = 0 /\ st_files = {} /\ st_index = None /\ st_logged = 0
    /\ st_call = None

CmpSpec == CmpInit /\ [][Compare]_vars

(***************************************************************************)
(* Claims                                                                  *)
(***************************************************************************)
Returned == x_pc = "done" /\ ~IsRaise(x_case.function)
Entries == {x_out.evaluations[i].value : i \in 1..Len(x_out.evaluations)}

\* an evaluation carries an error: the error key of a mapping, the error
\* field of an EvaluationResult
CarriesError(e) ==
    \/ e.t = "dict" /\ "error" \in e.keys /\ e.error # NoError
    \/ e.t = "EvaluationResult" /\ e.error # NoError

\* C1: when the test function returns normally and some criterion's
\* evaluation carries an error, execute_test returns passed=false.
C1_ErrorFailsTest ==
    (Returned /\ \E e \in Entries : CarriesError(e)) => ~x_out.result.passed

\* the threshold an evaluation records, 0.8 when it records none
RecordedThreshold(e) ==
    IF e.t = "dict" /\ ~("threshold" \in e.keys) THEN DefaultThreshold
    ELSE IF IsNum(e.threshold) THEN e.threshold ELSE DefaultThreshold

HasScore(e) ==
    \/ e.t = "dict" /\ "score" \in e.keys /\ IsNum(e.score)
    \/ e.t = "EvaluationResult" /\ IsNum(e.score)

ExplicitlyFailed(e) ==
    \/ e.t = "dict" /\ "passed" \in e.keys /\ ~e.passed
    \/ e.t = "EvaluationResult" /\ ~e.passed

FailsTest(e) ==
    /\ e.t \in {"dict", "EvaluationResult"}
    /\ \/ CarriesError(e)
       \/ ExplicitlyFailed(e)
       \/ HasScore(e) /\ RLess(e.score, RecordedThreshold(e))

\* C2: when the test function returns normally, execute_test returns
\* passed=false exactly when some criterion's evaluation carries an error, has
\* passed=false or has a score strictly below its recorded threshold (0.8
\* when it records none).
C2_PassIffNoCriterionFails ==
    Returned => (~x_out.result.passed <=> \E e \in Entries : FailsTest(e))

\* the criteria that produced a numeric score and no error, by position in
\* the evaluations
Usable(e) == e.t \in {"dict", "EvaluationResult"} /\ HasScore(e) /\ ~CarriesError(e)

WeightOf(criterion) ==
    IF x_self.weights[criterion] = Absent THEN One ELSE x_self.weights[criterion]

RECURSIVE SumUsable(_, _, _)
SumUsable(ev, i, weighted) ==
    IF i > Len(ev) THEN Zero
    ELSE LET rest == SumUsable(ev, i + 1, weighted)
         IN IF ~Usable(ev[i].value) THEN rest
            ELSE IF weighted THEN RAdd(RMul(ev[i].value.score, WeightOf(ev[i].key)), rest)
            ELSE RAdd(WeightOf(ev[i].key), rest)

\* C3: the overall score is sum(score*weight)/sum(weight) over the criteria
\* whose evaluation has a numeric score and no error, and None exactly when
\* there is no such criterion.
C3_OverallScoreIsWeightedMean ==
    Returned =>
        LET ev == x_out.evaluations
        IN IF \A i \in 1..Len(ev) : ~Usable(ev[i].value)
           THEN x_out.result.score = None
           ELSE /\ IsNum(x_out.result.score)
                /\ RMul(x_out.result.score, SumUsable(ev, 1, FALSE)) = SumUsable(ev, 1, TRUE)

\* C4: when the test function raises, execute_test returns (does not raise) a
\* TestResult of that test with passed=false, the fault as error, the
\* duration, no score and no evaluations, and no evaluator was called.
C4_FunctionFaultIsRecorded ==
    (x_pc = "done" /\ IsRaise(x_case.function)) =>
        /\ ~x_out.raised
        /\ x_out.result.t = "TestResult"
        /\ x_out.result.test_name = x_case.name
        /\ ~x_out.result.passed
        /\ x_out.result.error # NoError
        /\ x_out.result.error[1] = x_case.function.exc
        /\ x_out.result.duration = Num(x_case.elapsed, 1)
        /\ x_out.result.score = None
        /\ x_out.result.evaluations = NoEvaluations
        /\ x_out.calls = <<>>

C4_Witness ==
    /\ x_pc = "done"
    /\ IsRaise(x_case.function)
    /\ Len(x_case.criteria) = MaxCriteria
    /\ x_case.elapsed > 0
    /\ x_out.result.error = Msg("ValueError", "")

\* what _evaluate_test_output must store for a criterion
EntryFor(criterion) ==
    LET resolved == x_self.registry[criterion]
        failure(exc) == [t |-> "dict", keys |-> {"error"},
                         error |-> Msg("Evaluation failed: ", exc)]
    IN IF IsRaise(resolved) THEN failure(resolved.exc)
       ELSE IF resolved = None
       THEN [t |-> "dict", keys |-> {"error"},
             error |-> Msg("Evaluator '%s' not found", criterion)]
       ELSE LET r == Evaluate(resolved, x_case.function)
            IN IF IsRaise(r) THEN failure(r.exc) ELSE r

FirstAt(q, x) == CHOOSE i \in 1..Len(q) : q[i] = x /\ \A j \in 1..(i - 1) : q[j] # x

Resolves(criterion) ==
    ~IsRaise(x_self.registry[criterion]) /\ x_self.registry[criterion] # None

\* C6: when the test function returns normally, every criterion of the list
\* is processed, in declared order, and has an entry under its name: the
\* evaluator's result, the not-found entry, or the failure entry; the
\* evaluators called are those of the criteria that resolve, in list order.
C6_EveryCriterionGetsAnEntry ==
    Returned =>
        LET ev == x_out.evaluations
            criteria == x_case.criteria
        IN /\ DictKeys(ev) = SetOf(criteria)
           /\ Len(ev) = Cardinality(SetOf(criteria))
           /\ \A i, j \in 1..Len(ev) :
                  i < j => FirstAt(criteria, ev[i].key) < FirstAt(criteria, ev[j].key)
           /\ \A i \in 1..Len(ev) : ev[i].value = EntryFor(ev[i].key)
           /\ x_out.calls = SelectSeq(criteria, Resolves)

C6_Witness ==
    /\ Returned
    /\ Len(x_case.criteria) = 2
    /\ x_case.criteria[1] \in {"unknown", "faulty"}
    /\ x_case.criteria[2] = "custom_a"
    /\ Len(x_out.evaluations) = 2
    /\ x_out.evaluations[1].value.error # NoError
    /\ x_out.evaluations[2].value = x_self.registry["custom_a"].returns
    /\ x_out.calls = <<"custom_a">>

\* C7: evaluate of both evaluators hands its caller an EvaluationResult for
\* every test output and configuration, never an exception; when the body of
\* evaluate fails, that result has passed=false and error set.
C7_EvaluateNeverRaises ==
    ev_pc = "done" =>
        /\ ev_out.t = "EvaluationResult"
        /\ LET body == IF ev_self.name = "regex" THEN RegexBody(ev_self, ev_input)
                       ELSE StringSimilarityBody(ev_self, ev_input)
           IN IsRaise(body) => (~ev_out.passed /\ ev_out.error # NoError)

C7_Witness ==
    /\ ev_pc = "done"
    /\ ev_self.name = "string_similarity"
    /\ ev_input.t = "list"
    /\ IsRaise(StringSimilarityBody(ev_self, ev_input))
    /\ ev_out.t = "EvaluationResult"
    /\ ev_out.error = Msg("String similarity evaluation failed: ", "AttributeError")

\* the test cases the tag filter of run_tests keeps, in discovery order
RunSelected == Selected(run_args.discovered.items, run_args.tags)

\* C5: once discovery has returned a list, run_tests returns, and what it
\* returns holds one TestResult per tag-selected test case, in discovery
\* order, whatever faults the tests and their evaluations meet.
C5_RunReturnsOneResultPerTest ==
    /\ [](~IsRaise(run_args.discovered) => run_pc # "raised")
    /\ [](run_pc = "returned" =>
            /\ Len(run_results.test_results) = Len(RunSelected)
            /\ \A i \in 1..Len(RunSelected) :
                   /\ run_results.test_results[i].t = "TestResult"
                   /\ run_results.test_results[i].test_name = RunSelected[i].name)
    /\ (~IsRaise(run_args.discovered) ~> run_pc = "returned")

C5_Witness ==
    /\ run_pc = "returned"
    /\ Len(run_results.test_results) = MaxTests
    /\ IsRaise(run_cases[1].function)
    /\ run_results.test_results[1].error # NoError
    /\ run_results.test_results[MaxTests].test_name = run_cases[MaxTests].name
    /\ run_results.test_results[MaxTests].evaluations # NoEvaluations

\* the runs of the index that a ref names: by short id, full id or branch
NamedBy(ref) ==
    IF st_index = None THEN {}
    ELSE {i \in 1..Len(st_index.runs) :
             \/ st_index.runs[i].commit_hash_short = Str(Short(ref.s))
             \/ st_index.runs[i].commit_hash = ref
             \/ st_index.runs[i].branch = ref}

\* the timestamp of the most recent of them
MostRecent(ref) == Greatest({st_index.runs[i].timestamp : i \in NamedBy(ref)})

\* C8: compare_results resolves base and target each to the most recent
\* indexed run the ref names (short id, full id or branch) and loads the
\* record of that run; when a side names no run it raises the not-found
\* error, for base before target.
C8_CompareLoadsMostRecentRun ==
    st_call.op = "compare_results" =>
        IF NamedBy(st_call.base) = {} THEN st_call.out = GitError("base", st_call.base)
        ELSE IF NamedBy(st_call.target) = {}
        THEN st_call.out = GitError("target", st_call.target)
        ELSE /\ ~IsRaise(st_call.out)
             /\ st_call.out.base_timestamp = MostRecent(st_call.base)
             /\ st_call.out.target_timestamp = MostRecent(st_call.target)

NamesOf(record) == {record.test_results[k].test_name : k \in 1..Len(record.test_results)}

\* the pass/fail values a record reports under a name
Verdicts(record, name) ==
    {record.test_results[k].passed :
        k \in {j \in 1..Len(record.test_results) : record.test_results[j].test_name = name}}

IsFlip(entry, name) ==
    entry.test_name = name /\ entry.change \in {"FAIL -> PASS", "PASS -> FAIL"}

Lists(list, name, change) ==
    \E i \in 1..Len(list) : list[i].test_name = name /\ list[i].change = change

NoFlip(list, name) == \A i \in 1..Len(list) : ~IsFlip(list[i], name)

\* C9: for a test present in both records, a PASS->FAIL flip is listed in
\* regressions and never in improvements, a FAIL->PASS flip is listed in
\* improvements and never in regressions, and equal pass/fail gives no flip
\* entry.
C9_FlipsGoToTheirList ==
    cmp_pc = "done" =>
        \A name \in NamesOf(cmp_base) \cap NamesOf(cmp_target) :
            /\ (Verdicts(cmp_base, name) = {TRUE} /\ Verdicts(cmp_target, name) = {FALSE}) =>
                  /\ Lists(cmp_out.regressions, name, "PASS -> FAIL")
                  /\ NoFlip(cmp_out.improvements, name)
            /\ (Verdicts(cmp_base, name) = {FALSE} /\ Verdicts(cmp_target, name) = {TRUE}) =>
                  /\ Lists(cmp_out.improvements, name, "FAIL -> PASS")
                  /\ NoFlip(cmp_out.regressions, name)
            /\ (Cardinality(Verdicts(cmp_base, name)) = 1
                /\ Verdicts(cmp_base, name) = Verdicts(cmp_target, name)) =>
                  /\ NoFlip(cmp_out.improvements, name)
                  /\ NoFlip(cmp_out.regressions, name)

C9_Witness ==
    /\ cmp_pc = "done"
    /\ Verdicts(cmp_base, "t_a") = {TRUE} /\ Verdicts(cmp_target, "t_a") = {FALSE}
    /\ Verdicts(cmp_base, "t_b") = {FALSE} /\ Verdicts(cmp_target, "t_b") = {TRUE}
    /\ Lists(cmp_out.regressions, "t_a", "PASS -> FAIL")
    /\ Lists(cmp_out.improvements, "t_b", "FAIL -> PASS")

Occurrences(list, name) == Cardinality({i \in 1..Len(list) : list[i] = name})

\* C10: new_tests holds exactly once each name of the target record absent
\* from the base record, removed_tests exactly once each name of the base
\* record absent from the target record, and neither holds any other name.
C10_NewAndRemovedAreTheDifferences ==
    cmp_pc = "done" =>
        /\ \A name \in NamesOf(cmp_target) \ NamesOf(cmp_base) :
               Occurrences(cmp_out.new_tests, name) = 1
        /\ \A i \in 1..Len(cmp_out.new_tests) :
               cmp_out.new_tests[i] \in NamesOf(cmp_target) \ NamesOf(cmp_base)
        /\ \A name \in NamesOf(cmp_base) \ NamesOf(cmp_target) :
               Occurrences(cmp_out.removed_tests, name) = 1
        /\ \A i \in 1..Len(cmp_out.removed_tests) :
               cmp_out.removed_tests[i] \in NamesOf(cmp_base) \ NamesOf(cmp_target)

C10_Witness ==
    /\ cmp_pc = "done"
    /\ Len(cmp_target.test_results) = MaxRecTests
    /\ NamesOf(cmp_target) = {"t_b"}
    /\ NamesOf(cmp_base) = {"t_a"}
    /\ cmp_out.new_tests = <<"t_b">>
    /\ cmp_out.removed_tests = <<"t_a">>

\* the scores a record reports under a name
ScoresOf(record, name) ==
    {record.test_results[k].score :
        k \in {j \in 1..Len(record.test_results) : record.test_results[j].test_name = name}}

\* the score entries of a list for a name
ScoreEntries(list, name) ==
    SelectSeq(list, LAMBDA e : e.test_name = name
                               /\ e.change \in {"score improved by", "score decreased by"})

\* C11: a test present in both records gets a score entry exactly when both
\* sides report a numeric score and the absolute difference exceeds 0.1; the
\* entry is an improvement when the target score is higher, a regression when
\* it is lower; a missing score gives no score entry, and no error.
C11_ScoreEntryIffChangeAboveTenth ==
    cmp_pc = "done" =>
        /\ ~IsRaise(cmp_out)
        /\ \A name \in NamesOf(cmp_base) \cap NamesOf(cmp_target) :
              \A b \in ScoresOf(cmp_base, name), t \in ScoresOf(cmp_target, name) :
                  (ScoresOf(cmp_base, name) = {b} /\ ScoresOf(cmp_target, name) = {t}) =>
                      IF b # None /\ t # None /\ RLess(Num(1, 10), RAbs(RSub(t, b)))
                      THEN IF RLess(b, t)
                           THEN /\ Len(ScoreEntries(cmp_out.improvements, name)) = 1
                                /\ ScoreEntries(cmp_out.improvements, name)[1].change
                                      = "score improved by"
                                /\ ScoreEntries(cmp_out.regressions, name) = <<>>
                           ELSE /\ Len(ScoreEntries(cmp_out.regressions, name)) = 1
                                /\ ScoreEntries(cmp_out.regressions, name)[1].change
                                      = "score decreased by"
                                /\ ScoreEntries(cmp_out.improvements, name) = <<>>
                      ELSE /\ ScoreEntries(cmp_out.improvements, name) = <<>>
                           /\ ScoreEntries(cmp_out.regressions, name) = <<>>

\* a difference of exactly 0.1 between two numeric scores: no entry
C11_Witness ==
    /\ cmp_pc = "done"
    /\ ScoresOf(cmp_base, "t_a") = {Zero}
    /\ ScoresOf(cmp_target, "t_a") = {Num(1, 10)}
    /\ ScoreEntries(cmp_out.improvements, "t_a") = <<>>
    /\ ScoreEntries(cmp_out.regressions, "t_a") = <<>>

\* C12: no log_results overwrites or changes the record file an earlier one
\* wrote: every file stays as it is, and one file is added.
C12_RecordsAreImmutable ==
    [][st_logged' = st_logged + 1 =>
          /\ \A f \in st_files :
                 \E g \in st_files' : g.name = f.name /\ g.entry = f.entry /\ g.mtime = f.mtime
          /\ Cardinality(st_files') = Cardinality(st_files) + 1]_vars

\* C13: in every state log_results and cleanup_old_results calls lead to, the
\* chronological list of the index holds at most the limit (100) of entries.
C13_IndexHoldsAtMostLimit ==
    st_index # None => Len(st_index.runs) <= IndexLimit

\* the index the writes of the record files maintain: _update_index applied
\* for each of the n oldest files, in the order they were written
RECURSIVE Written(_, _)
Written(files, n) ==
    IF n = 0 THEN None
    ELSE _update_index(Written(files, n - 1),
             (CHOOSE f \in files : Cardinality({g \in files : g.mtime < f.mtime}) = n - 1).entry)

\* every run logged still has the record file it wrote
AllRecordsKept ==
    /\ st_logged >= 1
    /\ Cardinality(st_files) = st_logged
    /\ \A f, g \in st_files : f.mtime = g.mtime => f = g

\* C14: for at most the limit (100) of records written by log_results, the
\* index _rebuild_index produces equals the index the writes maintained: the
\* same chronological list, the same by-commit and by-branch buckets.
C14_RebuildEqualsIncremental ==
    (st_call.op = "cleanup_old_results" /\ AllRecordsKept /\ st_logged <= IndexLimit) =>
        st_index = Written(st_files, st_logged)

\* Claim C15: rebuilding the index twice in a row over the same record files,
\* records of equal timestamps included, gives the same ordered list of
\* summaries, and no summary of the index is one of index.json.
C15_RebuildIsIdempotent ==
    /\ [][(/\ st_call.op = "cleanup_old_results"
           /\ st_call'.op = "cleanup_old_results"
           /\ st_files' = st_files) => st_index'.runs = st_index.runs]_vars
    /\ [](st_index # None =>
             \A k \in 1..Len(st_index.runs) : st_index.runs[k].filename # IndexName)

\* an index rebuilt from two records of equal timestamps, index.json present
C15_Witness ==
    /\ st_call.op = "cleanup_old_results"
    /\ st_logged = 2
    /\ Len(st_index.runs) = 2
    /\ st_index.runs[1].timestamp = st_index.runs[2].timestamp
    /\ st_index.runs[1].filename # st_index.runs[2].filename
    /\ \A f \in st_files : f.place = 1 => f.name = st_index.runs[1].filename

\* Claim C16: cleanup_old_results deletes every record file modified before
\* the cutoff and leaves every other one as it was, and the list of the
\* rebuilt index has exactly one summary for each file left and nothing else,
\* whatever the index held before.
C16_CleanupKeepsTheRecentRecords ==
    [][st_call'.op = "cleanup_old_results" =>
          /\ \A f \in st_files :
                 IF f.mtime < st_call'.cutoff_time
                 THEN \A g \in st_files' : g.name # f.name
                 ELSE \E g \in st_files' :
                         g.name = f.name /\ g.entry = f.entry /\ g.mtime = f.mtime
          /\ \A g \in st_files' : \E f \in st_files : f.name = g.name
          /\ Len(st_index'.runs) = Cardinality(st_files')
          /\ \A g \in st_files' :
                 Cardinality({k \in 1..Len(st_index'.runs) :
                                 st_index'.runs[k] = EntrySummary(g.entry, g.name)}) = 1]_vars

\* a cleanup whose cutoff is the modification time of a file it kept, after
\* three runs of which the index listed two and one file is left
C16_Witness ==
    /\ st_call.op = "cleanup_old_results"
    /\ st_logged = 3
    /\ Cardinality(st_files) = 1
    /\ \A f \in st_files : f.mtime = st_call.cutoff_time /\ f.mtime = st_now
    /\ Len(st_index.runs) = 1

\* the runs of the index a commit filter names: those whose commit id is the
\* given id, or starts with it when it is no longer than a short id
CommitNamed(run, commit) ==
    /\ run.commit_hash # None
    /\ \/ run.commit_hash = commit
       \/ /\ Len(commit.s) <= ShortLen
          /\ SubSeq(run.commit_hash.s, 1, Len(commit.s)) = commit.s

\* the runs of the index that match every filter given
Wanted(commit, branch) ==
    SelectSeq(st_index.runs,
              LAMBDA run : /\ commit # None => CommitNamed(run, commit)
                           /\ branch # None => run.branch = branch)

\* Claim C17: get_history(limit, commit, branch) returns at most limit
\* summaries, most recent first: the first limit of the runs of the index that
\* match every filter given, a commit filter matching the runs whose commit id
\* equals the given id or starts with the given short prefix; without an
\* index it returns the empty list.
C17_HistoryIsTheMatchingRuns ==
    st_call.op = "get_history" =>
        IF st_index = None THEN st_call.out = <<>>
        ELSE /\ Len(st_call.out) <= st_call.limit
             /\ \A i, j \in 1..Len(st_call.out) :
                    i < j => st_call.out[i].timestamp >= st_call.out[j].timestamp
             /\ st_call.out = SubSeq(Wanted(st_call.commit, st_call.branch), 1,
                                     Min2(st_call.limit,
                                          Len(Wanted(st_call.commit, st_call.branch))))

\* Claim C18: without a repository log_results completes: it writes a record
\* whose git_info is the error marker, in a file named with the commit id
\* "unknown", and adds a summary of the run to the list of the index (when the
\* list is not at its limit) and nothing to by_commit and by_branch.
C18_LogsWithoutRepository ==
    [][(st_repo = None /\ st_logged' = st_logged + 1) =>
          /\ st_call'.op = "log_results" /\ st_call'.out = None
          /\ \E f \in st_files' :
                 /\ f.name = [second |-> st_now' \div 2, commit |-> Unknown]
                 /\ f.entry.timestamp = st_now'
                 /\ f.entry.git_info = GitMarker(Msg("Git not available", ""))
                 /\ (st_index = None \/ Len(st_index.runs) < IndexLimit) =>
                        /\ Len(st_index'.runs) = 1 + (IF st_index = None THEN 0
                                                        ELSE Len(st_index.runs))
                        /\ \E k \in 1..Len(st_index'.runs) :
                               st_index'.runs[k] =
                                   [timestamp |-> st_now', commit_hash |-> None,
                                    commit_hash_short |-> None, branch |-> None,
                                    summary |-> f.entry.summary, filename |-> f.name]
          /\ st_index'.by_commit = (IF st_index = None THEN <<>> ELSE st_index.by_commit)
          /\ st_index'.by_branch = (IF st_index = None THEN <<>> ELSE st_index.by_branch)]_vars

\* two runs logged without a repository, in different seconds
C18_Witness ==
    /\ st_repo = None
    /\ st_call.op = "log_results"
    /\ st_logged = 2
    /\ Cardinality(st_files) = 2
    /\ \A f \in st_files : f.name.commit = Unknown /\ f.entry.git_info.error # Absent
    /\ Len(st_index.runs) = 2
    /\ st_index.by_commit = <<>> /\ st_index.by_branch = <<>>

\* a call of StringSimilarityEvaluator.evaluate has returned for a single
\* case (no test_cases key) that holds no expected value
NoExpected ==
    /\ ev_pc = "done"
    /\ ev_self.name = "string_similarity"
    /\ ~_extract_test_data(ev_input).has_cases
    /\ _extract_test_data(ev_input).expected = None

\* Claim C19, as stated: for an output with no expected value the evaluator
\* yields passed=true and score=1.0 whatever actual is, absent included.
C19_NoExpectedAlwaysPasses ==
    NoExpected => (ev_out.passed /\ ev_out.score = One)

\* Claim C19, amended: for an output with no expected value the evaluator
\* yields passed=true and score=1.0 whenever actual is present, whatever its
\* value, the method and the threshold; when actual is absent too it yields
\* passed=false, no score and an error.
C19_NoExpectedPassesWhenActualPresent ==
    NoExpected =>
        IF _extract_test_data(ev_input).actual # None
        THEN ev_out.passed /\ ev_out.score = One /\ ev_out.error = NoError
        ELSE ~ev_out.passed /\ ev_out.score = None /\ ev_out.error # NoError

\* the empty string as actual, no expected value, a threshold that is no number
C19_Witness ==
    /\ NoExpected
    /\ ev_input.t = "dict"
    /\ ev_input.actual = Str(<<>>)
    /\ ev_self.config.threshold = Str(<<"high">>)
    /\ ev_self.config.method = Str(<<"levenshtein">>)
    /\ ev_out.passed /\ ev_out.score = One

\* the cases of a multi-case output, and what evaluating case k alone gives
MultiCases == _extract_test_data(ev_input).test_cases.items
SubCase(k) == _evaluate_single_case(ev_self, MultiCases[k])

\* the sum of the scores of the first k cases, a case without a score adding 0
RECURSIVE SumOfScores(_)
SumOfScores(k) ==
    IF k = 0 THEN Zero
    ELSE IF SubCase(k).score = None THEN SumOfScores(k - 1)
    ELSE RAdd(SumOfScores(k - 1), SubCase(k).score)

\* a call of StringSimilarityEvaluator.evaluate has returned for a list of
\* cases, or a mapping with a list under test_cases, whose cases are mappings
\* that each evaluate to a result
MultiCaseDone ==
    /\ ev_pc = "done"
    /\ ev_self.name = "string_similarity"
    /\ _extract_test_data(ev_input).has_cases
    /\ _extract_test_data(ev_input).test_cases.t = "list"
    /\ \A k \in 1..Len(MultiCases) : ~IsRaise(SubCase(k))

\* Claim C20: in multi-case mode the evaluator reports passed iff every case
\* passed, a score that is the sum of the scores of the cases (0 for a case
\* without a score) divided by the number of cases, and in details one
\* individual result per case, in order.
C20_MultiCaseIsAllAndMean ==
    MultiCaseDone =>
        /\ ev_out.passed <=> \A k \in 1..Len(MultiCases) : SubCase(k).passed
        /\ Len(MultiCases) > 0 =>
               ev_out.score = RDiv(SumOfScores(Len(MultiCases)), Num(Len(MultiCases), 1))
        /\ ev_out.details.total_cases = Len(MultiCases)
        /\ Len(ev_out.details.individual_results) = Len(MultiCases)
        /\ \A k \in 1..Len(MultiCases) :
               ev_out.details.individual_results[k] = to_dict(SubCase(k))

\* two cases, the first passing with score 1, the second without a score
C20_Witness ==
    /\ MultiCaseDone
    /\ Len(MultiCases) = 2
    /\ SubCase(1).passed /\ SubCase(1).score = One
    /\ SubCase(2).score = None
    /\ ~ev_out.passed
    /\ ev_out.score = Num(1, 2)

\* the similarity of the single case evaluated, and the configured threshold
CaseSimilarity ==
    _calculate_similarity(ev_self, PyStr(_extract_test_data(ev_input).actual),
                          PyStr(_extract_test_data(ev_input).expected))
CaseThreshold ==
    IF ev_self.config.threshold = Absent THEN Num(4, 5) ELSE ev_self.config.threshold

\* a call of StringSimilarityEvaluator.evaluate has returned for a single
\* case with actual and expected, a threshold that is a number and a
\* similarity that was computed
SingleCaseDone ==
    /\ ev_pc = "done"
    /\ ev_self.name = "string_similarity"
    /\ ~_extract_test_data(ev_input).has_cases
    /\ _extract_test_data(ev_input).actual # None
    /\ _extract_test_data(ev_input).expected # None
    /\ IsNum(CaseThreshold)
    /\ ~IsRaise(CaseSimilarity)

\* Claim C21: for a single case with actual and expected the evaluator
\* returns the similarity as score, the configured threshold (0.8 when none
\* is configured) as threshold, and passed = (score >= threshold): a score
\* equal to the threshold passes.
C21_PassedIffScoreAtLeastThreshold ==
    SingleCaseDone =>
        /\ ev_out.error = NoError
        /\ ev_out.score = CaseSimilarity
        /\ ev_out.threshold = CaseThreshold
        /\ ev_out.passed <=> ~RLess(ev_out.score, ev_out.threshold)

\* a score of 0.5 against a configured threshold of 0.5
C21_Witness ==
    /\ SingleCaseDone
    /\ ev_self.config.threshold = Num(1, 2)
    /\ ev_self.config.method = Str(<<"levenshtein">>)
    /\ ev_out.score = Num(1, 2)
    /\ ev_out.passed

\* the edit distance of a and b: the least number of insertions, deletions
\* and substitutions of one character that make a into b
RECURSIVE EditDistance(_, _)
EditDistance(a, b) ==
    IF a = <<>> THEN Len(b)
    ELSE IF b = <<>> THEN Len(a)
    ELSE Min2(Min2(EditDistance(Tail(a), b) + 1, EditDistance(a, Tail(b)) + 1),
              EditDistance(Tail(a), Tail(b)) + (IF Head(a) = Head(b) THEN 0 ELSE 1))

\* the strings the single case evaluated compares
ActualText == PyStr(_extract_test_data(ev_input).actual)
ExpectedText == PyStr(_extract_test_data(ev_input).expected)

\* Claim C22: the levenshtein method returns 1 - d(a, b) / max(len(a), len(b))
\* for the edit distance d, 1.0 for two empty strings and for every pair
\* (a, a); it is symmetric and lies in [0, 1].
C22_LevenshteinIsEditSimilarity ==
    (SingleCaseDone /\ ev_self.config.method = Str(<<"levenshtein">>)) =>
        /\ ev_out.score =
              (IF ActualText = <<>> /\ ExpectedText = <<>> THEN One
               ELSE RSub(One, Num(EditDistance(ActualText, ExpectedText),
                                  Max2(Len(ActualText), Len(ExpectedText)))))
        /\ ActualText = ExpectedText => ev_out.score = One
        /\ _levenshtein_similarity(ExpectedText, ActualText) = ev_out.score
        /\ ~RLess(ev_out.score, Zero) /\ ~RLess(One, ev_out.score)

\* a shorter string against a longer one that shares one character with it
C22_Witness ==
    /\ SingleCaseDone
    /\ ev_self.config.method = Str(<<"levenshtein">>)
    /\ Len(ActualText) = 1 /\ Len(ExpectedText) = MaxLen
    /\ ExpectedText[MaxLen] = ActualText[1] /\ ExpectedText[1] # ActualText[1]
    /\ ev_out.score = Num(1, MaxLen)

\* a call of RegexEvaluator.evaluate has returned
RegexDone == ev_pc = "done" /\ ev_self.name = "regex"

\* the configured pattern, None when there is none
ConfiguredPattern ==
    IF ev_self.config.pattern = Absent THEN None ELSE ev_self.config.pattern

\* the pattern of the output when it gives one, the configured one otherwise
GivenPattern ==
    IF _extract_test_data(ev_input).pattern # None
    THEN _extract_test_data(ev_input).pattern ELSE ConfiguredPattern

\* the same, an empty pattern of the output counting as none
UsedPattern ==
    IF Truthy(_extract_test_data(ev_input).pattern)
    THEN _extract_test_data(ev_input).pattern ELSE ConfiguredPattern

\* the pattern p is a string the regex compiler accepts
ValidPattern(p) == p.t = "str" /\ \A k \in 1..Len(p.s) : p.s[k] # "("

\* the pattern p is found somewhere in the stringified actual
FoundIn(p) ==
    /\ ValidPattern(p)
    /\ \E i \in 1..(Len(PyStr(_extract_test_data(ev_input).actual)) + 1) :
          MatchAt(p.s, PyStr(_extract_test_data(ev_input).actual), i)

\* Claim C23, as stated: the pattern of the output is used whenever the output
\* gives one, the configured one otherwise; without actual or without any
\* pattern the result is an error result; otherwise passed is true exactly
\* when the pattern is found, score is 1.0 when passed and 0.0 when not, and
\* details.match is set exactly when passed.
C23_RegexResultFollowsThePattern ==
    RegexDone =>
        IF _extract_test_data(ev_input).actual = None \/ GivenPattern = None
        THEN ~ev_out.passed /\ ev_out.error # NoError
        ELSE /\ ev_out.passed <=> FoundIn(GivenPattern)
             /\ ev_out.score = (IF ev_out.passed THEN One ELSE Zero)
             /\ ev_out.details # NoDetails
             /\ ev_out.details.pattern = GivenPattern
             /\ ev_out.details.match # None <=> ev_out.passed

\* Claim C23, amended: a non-empty pattern of the output is used, the
\* configured one otherwise; without actual, without a non-empty pattern, or
\* with a pattern that is no valid regular expression string the result is an
\* error result with no score; otherwise passed is true exactly when the
\* pattern is found, score is 1.0 when passed and 0.0 when not, and
\* details.match is set exactly when passed.
C23_RegexResultFollowsAValidPattern ==
    RegexDone =>
        IF \/ _extract_test_data(ev_input).actual = None
           \/ ~Truthy(UsedPattern)
           \/ ~ValidPattern(UsedPattern)
        THEN ~ev_out.passed /\ ev_out.error # NoError /\ ev_out.score = None
        ELSE /\ ev_out.error = NoError
             /\ ev_out.passed <=> FoundIn(UsedPattern)
             /\ ev_out.score = (IF ev_out.passed THEN One ELSE Zero)
             /\ ev_out.details.pattern = UsedPattern
             /\ ev_out.details.match # None <=> ev_out.passed

\* the pattern of the output found in actual where the configured one differs
C23_Witness ==
    /\ RegexDone
    /\ ev_input.t = "dict"
    /\ ev_input.actual = Str(<<"b", "a">>)
    /\ ev_input.pattern = Str(<<"b">>)
    /\ ev_self.config.pattern = Str(<<"a">>)
    /\ ev_out.passed /\ ev_out.score = One
    /\ ev_out.details.match = Str(<<"b">>)

\* an evaluation with no score, no error and no explicit passed=false
Harmless(e) ==
    /\ e.t \in {"dict", "EvaluationResult"}
    /\ ~HasScore(e) /\ ~CarriesError(e) /\ ~ExplicitlyFailed(e)

\* Claim C24: when every criterion of a test produces an evaluation with no
\* score, no error and no explicit passed=false, execute_test returns
\* passed=true, no overall score and no execution-level error.
C24_UnscoredCriteriaDoNotFail ==
    (Returned /\ Entries # {} /\ \A e \in Entries : Harmless(e)) =>
        /\ x_out.result.passed
        /\ x_out.result.score = None
        /\ x_out.result.error = NoError

\* the list of the index, empty when there is no index
RunsOf(index) == IF index = None THEN <<>> ELSE index.runs

\* how many entries of runs are more recent than t, and how many equal e
MoreRecent(runs, t) == Cardinality({k \in 1..Len(runs) : runs[k].timestamp > t})
Copies(runs, e) == Cardinality({k \in 1..Len(runs) : runs[k] = e})

\* the list is ordered by timestamp, most recent first
Chronological(runs) ==
    \A i, j \in 1..Len(runs) : i < j => runs[i].timestamp >= runs[j].timestamp

\* after is the most recent (up to the limit) of the entries of all
MostRecentOf(after, all) ==
    /\ Len(after) = Min2(Len(all), IndexLimit)
    /\ \A k \in 1..Len(after) : Copies(after, after[k]) <= Copies(all, after[k])
    /\ \A k \in 1..Len(all) :
          MoreRecent(after, all[k].timestamp)
              = Min2(MoreRecent(all, all[k].timestamp), IndexLimit)

\* Claim C25: in every state log_results and cleanup_old_results lead to, the
\* list of the index is ordered by timestamp, most recent first; and after
\* log_results it consists of the most recent (up to the limit, 100) of the
\* summaries of the list before and the summary of the new run.
C25_ListIsTheMostRecentRuns ==
    /\ [](Chronological(RunsOf(st_index)))
    /\ [][st_logged' = st_logged + 1 =>
             \E f \in st_files' :
                /\ f.entry.timestamp = st_now'
                /\ MostRecentOf(st_index'.runs,
                                Append(RunsOf(st_index), EntrySummary(f.entry, f.name)))]_vars

\* a run logged into a full list: the list holds the limit of runs, of
\* different timestamps, and a file older than all of them has no entry left
C25_Witness ==
    /\ st_call.op = "log_results"
    /\ st_logged = IndexLimit + 1
    /\ Len(st_index.runs) = IndexLimit
    /\ st_index.runs[1].timestamp > st_index.runs[IndexLimit].timestamp
    /\ \E f \in st_files : f.mtime < st_index.runs[IndexLimit].timestamp

\* Claim C26: whenever the test function returns normally, whatever the
\* evaluators return and whatever weights are configured, execute_test
\* returns a result with no execution-level error and with the evaluations
\* of every criterion attached.
C26_OnlyFunctionFaultsAreErrors ==
    Returned =>
        /\ x_out.result.error = NoError
        /\ x_out.result.evaluations = x_out.evaluations
        /\ DictKeys(x_out.result.evaluations) = SetOf(x_case.criteria)

\* Claim C27: in the result of compare_results no test has an entry in
\* improvements and an entry in regressions: its pass/fail entry and its score
\* entry, when it has both, are in the same list.
C27_NoTestInBothLists ==
    cmp_pc = "done" =>
        \A i \in 1..Len(cmp_out.improvements), j \in 1..Len(cmp_out.regressions) :
            cmp_out.improvements[i].test_name # cmp_out.regressions[j].test_name

\* the record file an index entry names, with the entry's timestamp stored in it
Stored(run) ==
    \E f \in st_files : f.name = run.filename /\ f.entry.timestamp = run.timestamp

\* Claim C28: in every state log_results and cleanup_old_results calls lead to,
\* each entry of the chronological list of the index names a record file of the
\* store whose stored timestamp is the entry's, and no two entries name the
\* same record file.
C28_IndexEntriesNameTheirRecords ==
    /\ \A i \in 1..Len(RunsOf(st_index)) : Stored(RunsOf(st_index)[i])
    /\ \A i, j \in 1..Len(RunsOf(st_index)) :
           i # j => RunsOf(st_index)[i].filename # RunsOf(st_index)[j].filename

\* a record file of the store holds a run logged for the revision or branch ref
Persisted(ref) ==
    \E f \in st_files :
        \/ f.entry.git_info.commit_hash = ref
        \/ f.entry.git_info.commit_hash_short = ref
        \/ f.entry.git_info.branch = ref

\* Claim C29: a persisted record stays reachable: while the record file of a
\* run logged for a revision or branch is in the store, compare_results given
\* that revision or branch does not raise the not-found error for it, however
\* many runs were logged afterwards.
C29_PersistedRecordStaysReachable ==
    st_call.op = "compare_results" =>
        /\ Persisted(st_call.base) => st_call.out # GitError("base", st_call.base)
        /\ Persisted(st_call.target) => st_call.out # GitError("target", st_call.target)

\* Claim C30: every result the string-similarity evaluator returns with
\* passed=true and a recorded threshold has a score greater than or equal to
\* that threshold, for a single case and for every list of cases, the empty
\* list included.
C30_PassedScoreIsAtLeastThreshold ==
    (/\ ev_pc = "done"
     /\ ev_self.name = "string_similarity"
     /\ ~IsRaise(ev_out)
     /\ ev_out.passed
     /\ IsNum(ev_out.threshold)) =>
        /\ IsNum(ev_out.score)
        /\ ~RLess(ev_out.score, ev_out.threshold)

====
